---- MODULE Spec2Model ----
(***************************************************************************)
(* India-region business rules of saleor: GSTIN validation, GST            *)
(* calculation, discount-with-GST recalculation, INR amounts, UPI address  *)
(* validation and the in-memory Razorpay mock with the payment service.    *)
(*                                                                         *)
(* A pure function of the source is modelled as an operator and exercised  *)
(* by a specification whose initial states draw the arguments of one call  *)
(* (pc = "call") and whose single action applies the function and records  *)
(* what it returns or raises (pc = "done").  The Razorpay mock keeps state *)
(* (orders, payments): its specification takes one call per step on one    *)
(* client (pc = "client") and records the last call in op, args and ret.   *)
(*                                                                         *)
(* Representation.                                                         *)
(*  - A Python str is a sequence of one-character strings.                 *)
(*  - An input Decimal is a record [c, e] standing for c * 10^(-e): c is   *)
(*    the signed coefficient and e the number of fractional digits, so     *)
(*    that Decimal("1.50") and Decimal("1.500") are different inputs with  *)
(*    the same value, as Decimal.as_tuple() sees them.                     *)
(*    A Decimal whose coefficient is too long for the model's integers is  *)
(*    a record [r, f, e]: r rupees and the e fractional digits f.          *)
(*  - A Python int that may be too long is a record [hi, lo] standing for  *)
(*    hi * 10^5 + lo.                                                      *)
(*  - Every Decimal produced by quantize(Decimal("0.01")) is an integer    *)
(*    number of paisa (1/100 rupee).                                       *)
(*  - Decimal arithmetic is exact within the default 28-digit context for  *)
(*    every value of the model, so products and quotients are computed as  *)
(*    exact fractions num/den and rounded once by quantize.                *)
(***************************************************************************)
EXTENDS Integers, Sequences, FiniteSets, TLC

VARIABLES pc, op, args, ret, orders, payments

vars == <<pc, op, args, ret, orders, payments>>

\* The value of ret before the call has returned.
NoRet == [status |-> "none"]

\* Python's None where a str is expected (comparable with every modelled str).
None == <<"None">>

----------------------------------------------------------------------------
(* Bounds of the model *)

\* Largest number of blanks put around a GSTIN input.
MaxPad == 1

----------------------------------------------------------------------------
(* Strings *)

char_map ==
  <<"0","1","2","3","4","5","6","7","8","9",
    "A","B","C","D","E","F","G","H","I","J","K","L","M",
    "N","O","P","Q","R","S","T","U","V","W","X","Y","Z">>

LowerLetters ==
  <<"a","b","c","d","e","f","g","h","i","j","k","l","m",
    "n","o","p","q","r","s","t","u","v","w","x","y","z">>

DigitChars == {char_map[i] : i \in 1..10}

UpperChars == {char_map[i] : i \in 11..36}

AlnumChars == {char_map[i] : i \in 1..36}

\* char_map.index(c), 0-based; c is a character of char_map.
CharIndex(c) == (CHOOSE i \in 1..36 : char_map[i] = c) - 1

\* str.upper() on one character.
UpperChar(c) ==
  IF \E i \in 1..26 : LowerLetters[i] = c
  THEN char_map[10 + (CHOOSE i \in 1..26 : LowerLetters[i] = c)]
  ELSE c

\* str.upper()
Upper(s) == [i \in 1..Len(s) |-> UpperChar(s[i])]

\* The whitespace characters of the model's strings.
Whitespace == {" ", "\n", "\t"}

RECURSIVE LStrip(_)
LStrip(s) == IF Len(s) > 0 /\ s[1] \in Whitespace THEN LStrip(Tail(s)) ELSE s

RECURSIVE RStrip(_)
RStrip(s) ==
  IF Len(s) > 0 /\ s[Len(s)] \in Whitespace THEN RStrip(SubSeq(s, 1, Len(s) - 1)) ELSE s

\* str.strip()
Strip(s) == RStrip(LStrip(s))

RECURSIVE DigitsValue(_)
DigitsValue(s) ==
  IF Len(s) = 0 THEN 0
  ELSE 10 * DigitsValue(SubSeq(s, 1, Len(s) - 1)) + CharIndex(s[Len(s)])

\* int(s) for a str: blanks around are ignored, one sign may lead, the rest
\* must be a non-empty run of decimal digits; anything else is ValueError.
ParseInt(s) ==
  LET t == Strip(s)
      signed == Len(t) > 0 /\ t[1] \in {"+", "-"}
      d == IF signed THEN Tail(t) ELSE t
  IN IF Len(d) > 0 /\ \A i \in 1..Len(d) : d[i] \in DigitChars
     THEN [ok |-> TRUE,
           val |-> IF signed /\ t[1] = "-" THEN 0 - DigitsValue(d) ELSE DigitsValue(d)]
     ELSE [ok |-> FALSE, val |-> 0]

\* The two-digit decimal numeral of n, 0 <= n <= 99.
TwoDigits(n) == <<char_map[(n \div 10) + 1], char_map[(n % 10) + 1]>>

RECURSIVE Blanks(_)
Blanks(n) == IF n = 0 THEN <<>> ELSE <<" ">> \o Blanks(n - 1)

----------------------------------------------------------------------------
(* gst.py: GSTIN validation *)

\* Highest valid Indian state code.
MaxStateCode == 38

\* A range check without the upper end.
StateCodeAtLeastOne(n) == 1 <= n

\* range check of a parsed state code: 1 <= code <= 38
ValidStateCodeInt(n) == 1 <= n /\ n <= MaxStateCode

\* GSTIN_PATTERN.match(s)
GSTIN_PATTERN(s) ==
  /\ Len(s) = 15
  /\ \A i \in 1..2 : s[i] \in DigitChars
  /\ \A i \in 3..7 : s[i] \in UpperChars
  /\ \A i \in 8..11 : s[i] \in DigitChars
  /\ s[12] \in UpperChars
  /\ s[13] \in AlnumChars \ {"0"}
  /\ s[14] = "Z"
  /\ s[15] \in AlnumChars

\* The weighted value of the character at 0-based position i.
ChecksumWeighted(c, i) == IF i % 2 = 0 THEN CharIndex(c) * 2 ELSE CharIndex(c)

RECURSIVE ChecksumValue(_, _)
\* checksum_value after the loop has consumed the first n characters.
ChecksumValue(g, n) ==
  IF n = 0 THEN 0
  ELSE LET value == ChecksumWeighted(g[n], n - 1)
       IN ChecksumValue(g, n - 1) + (value \div Len(char_map)) + (value % Len(char_map))

\* The checksum character the code expects after the first 14 characters.
ExpectedChecksum(g) ==
  LET remainder == ChecksumValue(g, 14) % Len(char_map)
  IN char_map[((Len(char_map) - remainder) % Len(char_map)) + 1]

\* Pattern validation only, the checksum not enforced.
ChecksumNotEnforced(g) == g[15] \in AlnumChars

_validate_gstin_checksum(g) == g[15] = ExpectedChecksum(g)

validate_gstin(gstin) ==
  IF Len(gstin) = 0 THEN [valid |-> FALSE, error |-> "GSTIN is required"]
  ELSE LET g == Upper(Strip(gstin))
       IN IF Len(g) # 15
          THEN [valid |-> FALSE, error |-> "GSTIN must be 15 characters long"]
          ELSE IF ~GSTIN_PATTERN(g)
          THEN [valid |-> FALSE, error |-> "GSTIN format is invalid"]
          ELSE LET state_code == ParseInt(SubSeq(g, 1, 2))
               IN IF ~state_code.ok
                  THEN [valid |-> FALSE, error |-> "State code must be numeric"]
                  ELSE IF ~ValidStateCodeInt(state_code.val)
                  THEN [valid |-> FALSE, error |-> "Invalid state code"]
                  ELSE IF ~_validate_gstin_checksum(g)
                  THEN [valid |-> FALSE, error |-> "GSTIN checksum validation failed"]
                  ELSE [valid |-> TRUE, error |-> "None"]

----------------------------------------------------------------------------
(* Inputs of validate_gstin *)

\* "27AAPFU0939F1ZV", the GSTIN of the tests.
TestGstin == <<"2","7","A","A","P","F","U","0","9","3","9","F","1","Z","V">>

TestGstinLower == <<"2","7","a","a","p","f","u","0","9","3","9","f","1","z","v">>

\* Characters 3..14 of a GSTIN: PAN, entity number and the literal Z.
GstinBodies ==
  { SubSeq(TestGstin, 3, 14),
    SubSeq(TestGstinLower, 3, 14),
    <<"A","B","C","D","E","1","2","3","4","F","2","Z">>,
    <<"A","A","P","F","U","0","9","3","9","F","0","Z">>,
    <<"A","A","P","F","U","0","9","3","9","F","1","Y">> }

GstinStateCodes == {TwoDigits(n) : n \in 0..(MaxStateCode + 1)} \cup {TwoDigits(99)}

GstinInputs ==
  { Blanks(l) \o sc \o b \o <<c>> \o Blanks(r) :
      l \in 0..MaxPad, r \in 0..MaxPad, sc \in GstinStateCodes,
      b \in GstinBodies, c \in AlnumChars \cup {"v"} }
  \cup { <<>>, <<" ">>, SubSeq(TestGstin, 1, 14),
         <<"A","B","C","D","E","F","G","H","I","J","K","L","M","N","O">> }

InitGstin ==
  /\ pc = "call"
  /\ op = "validate_gstin"
  /\ args \in [gstin : GstinInputs]
  /\ ret = NoRet
  /\ orders = <<>>
  /\ payments = <<>>

ValidateGstin ==
  /\ pc = "call"
  /\ op = "validate_gstin"
  /\ ret' = validate_gstin(args.gstin)
  /\ pc' = "done"
  /\ UNCHANGED <<op, args, orders, payments>>

NextGstin == ValidateGstin

SpecGstin == InitGstin /\ [][NextGstin]_vars

----------------------------------------------------------------------------
(* Decimal arithmetic *)

RECURSIVE Pow10(_)
Pow10(n) == IF n = 0 THEN 1 ELSE 10 * Pow10(n - 1)

\* An input Decimal: coefficient c, e fractional digits.
Dec(c, e) == [c |-> c, e |-> e]

RECURSIVE Norm(_)
\* The same value without trailing fractional zeros (Decimal arithmetic and
\* comparison go by value, not by exponent).
Norm(d) == IF d.e > 0 /\ d.c % 10 = 0 THEN Norm(Dec(d.c \div 10, d.e - 1)) ELSE d

\* a < b, a <= b for input Decimals
DecLt(a, b) == a.c * Pow10(b.e) < b.c * Pow10(a.e)

DecLe(a, b) == a.c * Pow10(b.e) <= b.c * Pow10(a.e)

Zero == Dec(0, 0)

Hundred == Dec(100, 0)

\* The paisa amount p as a Decimal with two fractional digits.
FromPaisa(p) == Dec(p, 2)

\* Rounding of num/den (den > 0) to an integer, exact halves away from zero
\* upwards (ROUND_HALF_UP on the non-negative values of the model).
RoundHalfUp(num, den) ==
  LET q == num \div den
      r == num % den
  IN IF 2 * r >= den THEN q + 1 ELSE q

\* Rounding of num/den (den > 0) to an integer under the default context of
\* decimal (ROUND_HALF_EVEN), which is what Decimal.quantize applies.
RoundHalfEven(num, den) ==
  LET q == num \div den
      r == num % den
  IN IF 2 * r < den THEN q
     ELSE IF 2 * r > den THEN q + 1
     ELSE IF q % 2 = 0 THEN q ELSE q + 1

\* d.quantize(Decimal("0.01")), in paisa.
QuantizePaisa(d) == RoundHalfEven(d.c * 100, Pow10(d.e))

----------------------------------------------------------------------------
(* gst.py: calculate_gst *)

\* int(code) succeeds with a value in 1..38 (lines 164-171 and 176-184).
StateCodeOk(code) == ParseInt(code).ok /\ ValidStateCodeInt(ParseInt(code).val)

\* Truth value of the optional str argument: None and "" are false.
Truthy(s) == s # None /\ Len(s) > 0

\* Validation that stops after the billing state code.
GstInputErrorNoShipping(amount, gst_rate, billing_state_code, shipping_state_code) ==
  IF DecLt(amount, Zero) THEN "Amount cannot be negative"
  ELSE IF DecLt(gst_rate, Zero) \/ DecLt(Hundred, gst_rate)
  THEN "GST rate must be between 0 and 100"
  ELSE IF ~StateCodeOk(billing_state_code) THEN "Invalid billing state code format"
  ELSE "None"

\* Steps 3.1 to 3.3: the first validation error, "None" when there is none.
GstInputError(amount, gst_rate, billing_state_code, shipping_state_code) ==
  IF DecLt(amount, Zero) THEN "Amount cannot be negative"
  ELSE IF DecLt(gst_rate, Zero) \/ DecLt(Hundred, gst_rate)
  THEN "GST rate must be between 0 and 100"
  ELSE IF ~StateCodeOk(billing_state_code) THEN "Invalid billing state code format"
  ELSE IF Truthy(shipping_state_code) /\ ~StateCodeOk(shipping_state_code)
  THEN "Invalid shipping state code format"
  ELSE "None"

\* The state codes compared as text.
InterStateByText(billing, shipping) == Truthy(shipping) /\ shipping # billing

\* is_inter_state, for state codes that passed validation: the parsed
\* integers are compared.
InterState(billing, shipping) ==
  Truthy(shipping) /\ ParseInt(billing).val # ParseInt(shipping).val

\* The base taken as amount less gst_rate percent of it.
BaseAmountLessRate(amount, gst_rate, include_gst) ==
  IF include_gst
  THEN RoundHalfEven(amount.c * (100 * Pow10(gst_rate.e) - gst_rate.c),
                     Pow10(amount.e) * Pow10(gst_rate.e))
  ELSE QuantizePaisa(amount)

\* Step 3.4 and 3.5: the base amount in paisa.
\* include_gst: (amount * 100) / (100 + gst_rate), then quantize.
BaseAmount(amount, gst_rate, include_gst) ==
  IF include_gst
  THEN LET a == Norm(amount)
           r == Norm(gst_rate)
           s == 4 + r.e
           k == IF a.e < s THEN a.e ELSE s
       IN \* a.c * 10^s / (10^a.e * (100 * 10^r.e + r.c)), in paisa, with the
          \* common power of ten 10^k cancelled
          RoundHalfEven(a.c * Pow10(s - k), Pow10(a.e - k) * (100 * Pow10(r.e) + r.c))
  ELSE QuantizePaisa(amount)

\* Step 3.6: (base_amount * gst_rate / 100).quantize, in paisa.
TotalGst(base_amount, gst_rate) ==
  RoundHalfEven(base_amount * gst_rate.c, 100 * Pow10(gst_rate.e))

\* Half of the tax with the odd paisa dropped.
CgstFloor(total_gst) == total_gst \div 2

\* Step 3.7, intra-state: (total_gst / 2).quantize, once for each half.
Cgst(total_gst) == RoundHalfEven(total_gst, 2)

\* The state half taken as what the central half leaves of the tax.
SgstRemainder(total_gst) == total_gst - Cgst(total_gst)

Sgst(total_gst) == RoundHalfEven(total_gst, 2)

calculate_gst(amount, gst_rate, billing_state_code, shipping_state_code, include_gst) ==
  IF GstInputError(amount, gst_rate, billing_state_code, shipping_state_code) # "None"
  THEN [status |-> "ValueError",
        msg |-> GstInputError(amount, gst_rate, billing_state_code, shipping_state_code)]
  ELSE LET is_inter_state == InterState(billing_state_code, shipping_state_code)
           base_amount == BaseAmount(amount, gst_rate, include_gst)
           total_gst == TotalGst(base_amount, gst_rate)
       IN [status |-> "ok",
           base_amount |-> base_amount,
           gst_rate |-> gst_rate,
           cgst |-> IF is_inter_state THEN 0 ELSE Cgst(total_gst),
           sgst |-> IF is_inter_state THEN 0 ELSE Sgst(total_gst),
           igst |-> IF is_inter_state THEN total_gst ELSE 0,
           total_gst |-> total_gst,
           total_amount |-> base_amount + total_gst,
           is_inter_state |-> is_inter_state]

----------------------------------------------------------------------------
(* Inputs of calculate_gst *)

\* Amounts 0.00 .. MaxPaisa/100 are drawn paisa by paisa.
MaxPaisa == 52

\* Amounts 0.000 .. MaxMills/1000 are drawn with three fractional digits.
MaxMills == 26

GstAmounts ==
  {Dec(c, 2) : c \in (0 - 1)..MaxPaisa}
  \cup {Dec(c, 3) : c \in 0..MaxMills}
  \cup {Dec(1000, 0), Dec(118000, 2), Dec(10005, 3), Dec(0 - 10000, 2)}

\* The GSTRate values, 100, a fractional rate and rates out of range.
GstRates ==
  {Dec(0, 2), Dec(5, 0), Dec(12, 0), Dec(1800, 2), Dec(28, 0), Dec(100, 0),
   Dec(25, 1), Dec(0 - 1, 0), Dec(10001, 2), Dec(150, 0)}

BillingCodes ==
  {<<"2","7">>, <<"0","7">>, <<"7">>, <<"3","8">>, <<"3","9">>, <<"0">>,
   <<>>, <<"a","b">>}

ShippingCodes ==
  {None, <<>>, <<"2","7">>, <<"0","7">>, <<"7">>, <<"9","9">>, <<"x">>}

GstInputs ==
  [amount : GstAmounts, gst_rate : GstRates, billing_state_code : BillingCodes,
   shipping_state_code : ShippingCodes, include_gst : BOOLEAN]

InitGst ==
  /\ pc = "call"
  /\ op = "calculate_gst"
  /\ args \in GstInputs
  /\ ret = NoRet
  /\ orders = <<>>
  /\ payments = <<>>

CalculateGst ==
  /\ pc = "call"
  /\ op = "calculate_gst"
  /\ ret' = calculate_gst(args.amount, args.gst_rate, args.billing_state_code,
                          args.shipping_state_code, args.include_gst)
  /\ pc' = "done"
  /\ UNCHANGED <<op, args, orders, payments>>

NextGst == CalculateGst

SpecGst == InitGst /\ [][NextGst]_vars

\* calculate_gst has returned a breakdown.
GstReturned == pc = "done" /\ op = "calculate_gst" /\ ret.status = "ok"

----------------------------------------------------------------------------
(* currency.py: validate_inr_amount *)

\* max_amount = Decimal("100000000.00"), in rupees (10 crore).
MaxInrRupees == 100000000

\* A Decimal too long for one coefficient: r + f * 10^(-e), with r >= 0 the
\* rupees and 0 <= f < 10^e the e fractional digits.
WideDec(r, f, e) == [r |-> r, f |-> f, e |-> e]

IsWide(a) == "r" \in DOMAIN a

\* The amount is a Decimal, or Decimal(str(amount)) makes it one.
IsDecimal(a) == "e" \in DOMAIN a

\* -1, 0 or 1 as the Decimal is below, at or above zero.
DecSign(a) ==
  IF IsWide(a) THEN (IF a.r = 0 /\ a.f = 0 THEN 0 ELSE 1)
  ELSE IF a.c < 0 THEN 0 - 1 ELSE IF a.c = 0 THEN 0 ELSE 1

\* The integer part of a Decimal that is not negative.
IntPart(a) == IF IsWide(a) THEN a.r ELSE a.c \div Pow10(a.e)

\* Its fractional digits, as a number below 10^e.
FracPart(a) == IF IsWide(a) THEN a.f ELSE a.c % Pow10(a.e)

\* amount >= n: the maximum itself is refused.
DecGeInt(a, n) == IntPart(a) >= n

\* a < b for two Decimals that are not negative.
PosLt(a, b) ==
  \/ IntPart(a) < IntPart(b)
  \/ /\ IntPart(a) = IntPart(b)
     /\ FracPart(a) * Pow10(b.e) < FracPart(b) * Pow10(a.e)

\* amount > n for a Decimal that is not negative and an integer number of
\* rupees n >= 0.
DecGtInt(a, n) == IntPart(a) > n \/ (IntPart(a) = n /\ FracPart(a) > 0)

\* min_amount is None (default 1.00) or a Decimal.
validate_inr_amount(amount, min_amount) ==
  IF ~IsDecimal(amount)
  THEN [valid |-> FALSE, error |-> "Invalid amount type"]
  ELSE IF DecSign(amount) <= 0
  THEN [valid |-> FALSE, error |-> "Amount must be positive"]
  ELSE IF DecSign(min_amount) > 0 /\ PosLt(amount, min_amount)
  THEN [valid |-> FALSE, error |-> "Amount is below minimum"]
  ELSE IF amount.e > 2
  THEN [valid |-> FALSE, error |-> "Amount cannot have more than 2 decimal places"]
  ELSE IF DecGtInt(amount, MaxInrRupees)
  THEN [valid |-> FALSE, error |-> "Amount exceeds maximum"]
  ELSE [valid |-> TRUE, error |-> "None"]

\* The default min_amount, Decimal("1.00").
DefaultMinAmount == Dec(100, 2)

\* The value in paisa of an input Decimal with at most 2 fractional digits.
ToPaisaValue(a) == a.c * Pow10(2 - a.e)

----------------------------------------------------------------------------
(* discount.py: apply_discount_with_gst *)

\* The discount taken on the gross figures: no tax is backed out of a fixed
\* discount.
DiscountOnGross(base_amount, discount_value, discount_type, gst_rate) ==
  IF discount_type = "percentage"
  THEN RoundHalfEven(base_amount * discount_value.c, 100 * Pow10(discount_value.e))
  ELSE QuantizePaisa(discount_value)

\* Step 1.4: discount_on_base in paisa, for a validated discount.
DiscountOnBase(base_amount, discount_value, discount_type, gst_rate) ==
  IF discount_type = "percentage"
  THEN RoundHalfEven(base_amount * discount_value.c, 100 * Pow10(discount_value.e))
  ELSE BaseAmount(discount_value, gst_rate, TRUE)

\* Step 1.5: the new base, never below 0.00.
NewBaseAmount(base_amount, discount_on_base) ==
  IF base_amount - discount_on_base < 0 THEN 0 ELSE base_amount - discount_on_base

\* Steps 1.1 to 1.4: the exception the call ends with, in the order the code
\* reaches them, or status "ok". original_gst is the outcome of step 1.3, the
\* call of calculate_gst on the original amount.
DiscountError(original_amount, discount_value, discount_type, original_gst) ==
  IF ~validate_inr_amount(original_amount, DefaultMinAmount).valid
  THEN [status |-> "IndianDiscountError", msg |-> "Invalid original amount"]
  ELSE IF ~validate_inr_amount(discount_value, Dec(0, 2)).valid /\ discount_type = "fixed"
  THEN [status |-> "IndianDiscountError", msg |-> "Invalid discount value"]
  ELSE IF discount_type \notin {"fixed", "percentage"}
  THEN [status |-> "IndianDiscountError", msg |-> "Invalid discount type"]
  ELSE IF original_gst.status # "ok"
  THEN original_gst
  ELSE IF discount_type = "percentage"
          /\ (DecLt(discount_value, Zero) \/ DecLt(Hundred, discount_value))
  THEN [status |-> "IndianDiscountError",
        msg |-> "Discount percentage must be between 0 and 100"]
  ELSE [status |-> "ok"]

\* Step 1.7: the breakdown returned (savings.percentage in hundredths of a
\* percent).
DiscountBreakdown(original_amount, discount_value, discount_type, original_gst, discount_on_base, new_gst) ==
  LET total_discount == ToPaisaValue(original_amount) - new_gst.total_amount
  IN [status |-> "ok",
      original |-> [base_amount |-> original_gst.base_amount,
                    gst_amount |-> original_gst.total_gst,
                    total_amount |-> original_gst.total_amount],
      discount |-> [type |-> discount_type,
                    value |-> discount_value,
                    discount_on_base |-> discount_on_base,
                    discount_on_gst |-> original_gst.total_gst - new_gst.total_gst,
                    total_discount |-> total_discount],
      final |-> [base_amount |-> new_gst.base_amount,
                 cgst |-> new_gst.cgst,
                 sgst |-> new_gst.sgst,
                 igst |-> new_gst.igst,
                 total_gst |-> new_gst.total_gst,
                 total_amount |-> new_gst.total_amount],
      savings |-> [amount |-> total_discount,
                   percentage |->
                     RoundHalfEven(total_discount * 100 * 100,
                                   ToPaisaValue(original_amount))]]

\* Steps 1.5 to 1.7: the new base, the GST on it, and the breakdown.
DiscountFromBase(original_amount, discount_value, discount_type, gst_rate, billing_state_code, shipping_state_code, original_gst, discount_on_base) ==
  DiscountBreakdown(original_amount, discount_value, discount_type, original_gst,
                    discount_on_base,
                    calculate_gst(FromPaisa(NewBaseAmount(original_gst.base_amount,
                                                          discount_on_base)),
                                  gst_rate, billing_state_code, shipping_state_code,
                                  FALSE))

\* Steps 1.1 to 1.7, given the outcome of the original GST calculation.
DiscountFromOriginalGst(original_amount, discount_value, discount_type, gst_rate, billing_state_code, shipping_state_code, original_gst) ==
  IF DiscountError(original_amount, discount_value, discount_type,
                   original_gst).status # "ok"
  THEN DiscountError(original_amount, discount_value, discount_type, original_gst)
  ELSE DiscountFromBase(original_amount, discount_value, discount_type, gst_rate,
                        billing_state_code, shipping_state_code, original_gst,
                        DiscountOnBase(original_gst.base_amount, discount_value,
                                       discount_type, gst_rate))

apply_discount_with_gst(original_amount, discount_value, discount_type, gst_rate, billing_state_code, shipping_state_code) ==
  DiscountFromOriginalGst(original_amount, discount_value, discount_type, gst_rate,
                          billing_state_code, shipping_state_code,
                          calculate_gst(original_amount, gst_rate, billing_state_code,
                                        shipping_state_code, TRUE))

----------------------------------------------------------------------------
(* Inputs of apply_discount_with_gst *)

\* Original amounts 0.99 .. 1.00 + MaxOriginalPaisa/100 are drawn paisa by paisa.
MaxOriginalPaisa == 24

OriginalAmounts ==
  {Dec(c, 2) : c \in 99..(100 + MaxOriginalPaisa)}
  \cup {Dec(118000, 2), Dec(1180, 0), Dec(0 - 10000, 2), Dec(0, 2), Dec(1005, 3)}

DiscountValues ==
  {Dec(0, 2), Dec(10, 0), Dec(1000, 2), Dec(100, 0), Dec(150, 0), Dec(0 - 5, 0),
   Dec(125, 1), Dec(11800, 2), Dec(50, 2), Dec(5, 3)}

DiscountTypes == {"fixed", "percentage", "invalid"}

DiscountRates == {Dec(0, 0), Dec(5, 0), Dec(1800, 2), Dec(100, 0), Dec(150, 0)}

DiscountInputs ==
  [original_amount : OriginalAmounts, discount_value : DiscountValues,
   discount_type : DiscountTypes, gst_rate : DiscountRates,
   billing_state_code : {<<"2","7">>, <<"9","9">>},
   shipping_state_code : {None, <<"2","7">>, <<"0","7">>}]

InitDiscount ==
  /\ pc = "call"
  /\ op = "apply_discount_with_gst"
  /\ args \in DiscountInputs
  /\ ret = NoRet
  /\ orders = <<>>
  /\ payments = <<>>

ApplyDiscountWithGst ==
  /\ pc = "call"
  /\ op = "apply_discount_with_gst"
  /\ ret' = apply_discount_with_gst(args.original_amount, args.discount_value,
                                    args.discount_type, args.gst_rate,
                                    args.billing_state_code, args.shipping_state_code)
  /\ pc' = "done"
  /\ UNCHANGED <<op, args, orders, payments>>

NextDiscount == ApplyDiscountWithGst

SpecDiscount == InitDiscount /\ [][NextDiscount]_vars

\* apply_discount_with_gst has returned its breakdown.
DiscountReturned == pc = "done" /\ op = "apply_discount_with_gst" /\ ret.status = "ok"

----------------------------------------------------------------------------
(* calculate_gst called directly or by apply_discount_with_gst *)

InitTax == InitGst \/ InitDiscount

NextTax == CalculateGst \/ ApplyDiscountWithGst

SpecTax == InitTax /\ [][NextTax]_vars

----------------------------------------------------------------------------
(* discount.py: calculate_bulk_discount_with_gst *)

\* applied_tier = None
NoTier == [min_qty |-> 0 - 1, discount_pct |-> 0 - 1]

RECURSIVE InsertAscending(_, _)
InsertAscending(t, sorted) ==
  IF Len(sorted) = 0 THEN <<t>>
  ELSE IF Head(sorted).min_qty <= t.min_qty
  THEN <<Head(sorted)>> \o InsertAscending(t, Tail(sorted))
  ELSE <<t>> \o sorted

RECURSIVE SortAscending(_, _)
SortAscending(tiers, n) ==
  IF n = 0 THEN <<>> ELSE InsertAscending(tiers[n], SortAscending(tiers, n - 1))

\* The tiers sorted by min_qty, lowest first.
SortedTiersAscending(discount_tiers) == SortAscending(discount_tiers, Len(discount_tiers))

RECURSIVE InsertDescending(_, _)
\* t placed behind every tier whose min_qty is not smaller (a stable sort).
InsertDescending(t, sorted) ==
  IF Len(sorted) = 0 THEN <<t>>
  ELSE IF Head(sorted).min_qty >= t.min_qty
  THEN <<Head(sorted)>> \o InsertDescending(t, Tail(sorted))
  ELSE <<t>> \o sorted

RECURSIVE SortDescending(_, _)
\* The first n tiers, sorted.
SortDescending(tiers, n) ==
  IF n = 0 THEN <<>> ELSE InsertDescending(tiers[n], SortDescending(tiers, n - 1))

\* sorted(discount_tiers, key=lambda x: x["min_qty"], reverse=True)
SortedTiers(discount_tiers) == SortDescending(discount_tiers, Len(discount_tiers))

RECURSIVE FirstQualifying(_, _)
\* The loop of step 3.3: the first tier of the list that quantity reaches.
FirstQualifying(sorted_tiers, quantity) ==
  IF Len(sorted_tiers) = 0 THEN NoTier
  ELSE IF quantity >= Head(sorted_tiers).min_qty THEN Head(sorted_tiers)
  ELSE FirstQualifying(Tail(sorted_tiers), quantity)

\* The per-item price cut off after 2 decimals instead of rounded.
PerItemPriceTruncated(final_total, quantity) == final_total \div quantity

\* (final_total / quantity).quantize(Decimal("0.01")), in paisa.
PerItemPrice(final_total, quantity) == RoundHalfEven(final_total, quantity)

\* Steps 3.4 and 3.5: the breakdown for the tier found; discount_result is the
\* outcome of apply_discount_with_gst on the order total, used only when the
\* tier's discount is positive.
BulkBreakdown(item_price, quantity, original_total, applied_tier, applicable_discount, discount_result) ==
  IF applicable_discount > 0
  THEN IF discount_result.status # "ok" THEN discount_result
       ELSE [status |-> "ok",
             item_price |-> item_price,
             quantity |-> quantity,
             original_total |-> ToPaisaValue(original_total),
             applied_tier |-> applied_tier,
             discount_percentage |-> applicable_discount,
             discounted |-> TRUE,
             final_total |-> discount_result.final.total_amount,
             final_per_item_price |->
               PerItemPrice(discount_result.final.total_amount, quantity)]
  ELSE [status |-> "ok",
        item_price |-> item_price,
        quantity |-> quantity,
        original_total |-> ToPaisaValue(original_total),
        applied_tier |-> applied_tier,
        discount_percentage |-> applicable_discount,
        discounted |-> FALSE,
        final_total |-> ToPaisaValue(original_total),
        final_per_item_price |-> ToPaisaValue(item_price)]

\* Steps 3.3 to 3.5, given the tier the loop ends with.
BulkFromTier(item_price, quantity, original_total, applied_tier, applicable_discount, gst_rate, billing_state_code, shipping_state_code) ==
  BulkBreakdown(item_price, quantity, original_total, applied_tier, applicable_discount,
                apply_discount_with_gst(original_total, Dec(applicable_discount, 0),
                                        "percentage", gst_rate, billing_state_code,
                                        shipping_state_code))

\* applicable_discount: Decimal("0") without a tier, else the tier's percentage.
ApplicableDiscount(applied_tier) ==
  IF applied_tier = NoTier THEN 0 ELSE applied_tier.discount_pct

calculate_bulk_discount_with_gst(item_price, quantity, discount_tiers, gst_rate, billing_state_code, shipping_state_code) ==
  IF ~validate_inr_amount(item_price, DefaultMinAmount).valid
  THEN [status |-> "IndianDiscountError", msg |-> "Invalid item price"]
  ELSE IF quantity <= 0
  THEN [status |-> "IndianDiscountError", msg |-> "Quantity must be positive"]
  ELSE BulkFromTier(item_price, quantity, Dec(item_price.c * quantity, item_price.e),
                    FirstQualifying(SortedTiers(discount_tiers), quantity),
                    ApplicableDiscount(FirstQualifying(SortedTiers(discount_tiers),
                                                       quantity)),
                    gst_rate, billing_state_code, shipping_state_code)

----------------------------------------------------------------------------
(* Inputs of calculate_bulk_discount_with_gst *)

\* Longest list of discount tiers.
MaxTiers == 2

\* Largest quantity ordered.
MaxQuantity == 30

Tiers == [min_qty : {5, 10, 30}, discount_pct : {0, 10, 20}]

RECURSIVE TierLists(_)
TierLists(n) ==
  IF n = 0 THEN {<<>>}
  ELSE TierLists(n - 1)
       \cup {Append(l, t) : l \in {x \in TierLists(n - 1) : Len(x) = n - 1}, t \in Tiers}

BulkInputs ==
  [item_price : {Dec(100, 2), Dec(10000, 2), Dec(999, 2), Dec(50, 2), Dec(11800, 2)},
   quantity : {0, 3, 5, 10, 25, MaxQuantity},
   discount_tiers : TierLists(MaxTiers),
   gst_rate : {Dec(1800, 2), Dec(5, 0), Dec(150, 0)},
   billing_state_code : {<<"2","7">>},
   shipping_state_code : {None, <<"0","7">>}]

InitBulk ==
  /\ pc = "call"
  /\ op = "calculate_bulk_discount_with_gst"
  /\ args \in BulkInputs
  /\ ret = NoRet
  /\ orders = <<>>
  /\ payments = <<>>

CalculateBulkDiscountWithGst ==
  /\ pc = "call"
  /\ op = "calculate_bulk_discount_with_gst"
  /\ ret' = calculate_bulk_discount_with_gst(args.item_price, args.quantity,
                                             args.discount_tiers, args.gst_rate,
                                             args.billing_state_code,
                                             args.shipping_state_code)
  /\ pc' = "done"
  /\ UNCHANGED <<op, args, orders, payments>>

NextBulk == CalculateBulkDiscountWithGst

SpecBulk == InitBulk /\ [][NextBulk]_vars

\* calculate_bulk_discount_with_gst has returned its breakdown.
BulkReturned ==
  pc = "done" /\ op = "calculate_bulk_discount_with_gst" /\ ret.status = "ok"

----------------------------------------------------------------------------
(* india/validators.py *)

\* [a-zA-Z0-9._\-]
VpaUserChars ==
  {LowerLetters[i] : i \in 1..26} \cup UpperChars \cup DigitChars \cup {".", "_", "-"}

\* [a-zA-Z]
VpaHandleChars == {LowerLetters[i] : i \in 1..26} \cup UpperChars

\* The text a trailing $ ends at: the whole str, or the str without one
\* final newline.
BeforeFinalNewline(s) ==
  IF Len(s) > 0 /\ s[Len(s)] = "\n" THEN SubSeq(s, 1, Len(s) - 1) ELSE s

\* The two parts at the "@" of position i have lengths and characters that
\* ^[a-zA-Z0-9._\-]{2,256}@[a-zA-Z]{3,64} accepts.
VpaPartsAt(t, i) ==
  /\ t[i] = "@"
  /\ i - 1 >= 2 /\ i - 1 <= 256
  /\ Len(t) - i >= 3 /\ Len(t) - i <= 64
  /\ \A j \in 1..(i - 1) : t[j] \in VpaUserChars
  /\ \A j \in (i + 1)..Len(t) : t[j] \in VpaHandleChars

\* _UPI_VPA_RE.match(s)
_UPI_VPA_RE(s) ==
  \/ \E i \in 1..Len(s) : VpaPartsAt(s, i)
  \/ \E i \in 1..Len(BeforeFinalNewline(s)) : VpaPartsAt(BeforeFinalNewline(s), i)

\* What a validator raises: "None" when it returns normally.
Ok == [status |-> "ok"]

validate_currency_inr(currency) ==
  IF currency # "INR"
  THEN [status |-> "ValueError",
        msg |-> "Only INR currency is supported in Saleor India module"]
  ELSE Ok

validate_money_is_inr(amount) == validate_currency_inr(amount.currency)

\* india.validators.validate_upi_vpa: raises ValueError unless the pattern
\* matches vpa or "".
validate_upi_vpa(vpa) ==
  IF ~_UPI_VPA_RE(IF vpa = None THEN <<>> ELSE vpa)
  THEN [status |-> "ValueError", msg |-> "Invalid UPI VPA format"]
  ELSE Ok

----------------------------------------------------------------------------
(* india/clients/razorpay_mock.py: RazorpayClientMock *)

\* prices.Money
Money(amount, currency) == [amount |-> amount, currency |-> currency]

RazorpayOrder(id, amount, receipt, status) ==
  [id |-> id, amount |-> amount, currency |-> amount.currency, receipt |-> receipt,
   status |-> status]

RazorpayPayment(id, order_id, amount, vpa, status, error_code) ==
  [id |-> id, order_id |-> order_id, amount |-> amount, currency |-> amount.currency,
   vpa |-> vpa, status |-> status, error_code |-> error_code]

\* The n-th id drawn from uuid4 stands for itself: ids are fresh, so the
\* dict self.orders is the sequence of its values in insertion order.
NewId(table) == Len(table) + 1

\* order_id in self.orders
OrderKnown(table, order_id) == order_id \in 1..Len(table)

\* The order is left as it was.
LeaveOrder(table, order_id) == table

\* self.orders[order_id] = RazorpayOrder(..., status="paid")
MarkPaid(table, order_id) == [table EXCEPT ![order_id].status = "paid"]

\* payment.__dict__ for the logging call: RazorpayPayment is a dataclass
\* with slots=True, whose instances have no __dict__.
PaymentDict(payment) ==
  [status |-> "AttributeError",
   msg |-> "'RazorpayPayment' object has no attribute '__dict__'"]

\* The outcome of a call on the client: the tables after it and what the
\* call returned or raised.
Outcome(o, p, r) == [orders |-> o, payments |-> p, ret |-> r]

\* self.orders[order_id] = order; return order
StoreOrder(o, p, order) == Outcome(Append(o, order), p, [status |-> "ok", order |-> order])

create_order(o, p, amount, receipt) ==
  IF validate_money_is_inr(amount).status # "ok"
  THEN Outcome(o, p, validate_money_is_inr(amount))
  ELSE StoreOrder(o, p, RazorpayOrder(NewId(o), amount, receipt, "created"))

\* A client that keeps one captured payment per order: a second capture of
\* an order is not stored.
StorePaymentDeduplicated(o, p, payment) ==
  Outcome(o,
          IF \E i \in 1..Len(p) : /\ p[i].order_id = payment.order_id
                                  /\ p[i].status = "captured"
                                  /\ payment.status = "captured"
          THEN p ELSE Append(p, payment),
          IF PaymentDict(payment).status # "ok" THEN PaymentDict(payment)
          ELSE [status |-> "ok", payment |-> payment])

\* self.payments[payment_id] = payment; the logging call; return payment.
\* o is the orders table after the branch's update.
StorePayment(o, p, payment) ==
  Outcome(o, Append(p, payment),
          IF PaymentDict(payment).status # "ok" THEN PaymentDict(payment)
          ELSE [status |-> "ok", payment |-> payment])

\* The three outcomes of capture_upi_payment for validated arguments.
CaptureValidated(o, p, order_id, amount, vpa) ==
  IF ~OrderKnown(o, order_id)
  THEN StorePayment(o, p, RazorpayPayment(NewId(p), order_id, amount, vpa, "failed",
                                          "ORDER_NOT_FOUND"))
  ELSE IF DecLt(amount.amount, Dec(1, 0))
  THEN StorePayment(o, p, RazorpayPayment(NewId(p), order_id, amount, vpa, "failed",
                                          "AMOUNT_TOO_LOW"))
  ELSE StorePayment(MarkPaid(o, order_id), p,
                    RazorpayPayment(NewId(p), order_id, amount, vpa, "captured", "None"))

\* capture_upi_payment with the VPA validated only after the payment is
\* stored.
capture_upi_payment_validating_late(o, p, order_id, amount, vpa) ==
  IF validate_money_is_inr(amount).status # "ok"
  THEN Outcome(o, p, validate_money_is_inr(amount))
  ELSE IF validate_upi_vpa(vpa).status # "ok"
  THEN Outcome(CaptureValidated(o, p, order_id, amount, vpa).orders,
               CaptureValidated(o, p, order_id, amount, vpa).payments,
               validate_upi_vpa(vpa))
  ELSE CaptureValidated(o, p, order_id, amount, vpa)

capture_upi_payment(o, p, order_id, amount, vpa) ==
  IF validate_money_is_inr(amount).status # "ok"
  THEN Outcome(o, p, validate_money_is_inr(amount))
  ELSE IF validate_upi_vpa(vpa).status # "ok"
  THEN Outcome(o, p, validate_upi_vpa(vpa))
  ELSE CaptureValidated(o, p, order_id, amount, vpa)

----------------------------------------------------------------------------
(* india/services/payment.py: process_payment_gateway *)

\* The PaymentResult built from the payment the gateway returned.
PaymentResult(pmt) ==
  IF pmt.status # "captured"
  THEN [status |-> "ok", success |-> FALSE, payment_status |-> pmt.status,
        payment_id |-> pmt.id, error_code |-> pmt.error_code]
  ELSE [status |-> "ok", success |-> TRUE, payment_status |-> pmt.status,
        payment_id |-> pmt.id, error_code |-> "None"]

\* After client.capture_upi_payment: any exception of the gateway calls is
\* re-raised as PaymentGatewayError.
ProcessAfterCapture(captured) ==
  IF captured.ret.status # "ok"
  THEN Outcome(captured.orders, captured.payments,
               [status |-> "PaymentGatewayError",
                msg |-> "Unexpected payment gateway exception"])
  ELSE Outcome(captured.orders, captured.payments, PaymentResult(captured.ret.payment))

\* After client.create_order.
ProcessAfterOrder(created, payment) ==
  IF created.ret.status # "ok"
  THEN Outcome(created.orders, created.payments,
               [status |-> "PaymentGatewayError",
                msg |-> "Unexpected payment gateway exception"])
  ELSE ProcessAfterCapture(capture_upi_payment(created.orders, created.payments,
                                               created.ret.order.id, payment.amount,
                                               payment.upi_vpa))

\* The exception of the checks made before the gateway is called, or Ok.
PaymentInputError(payment) ==
  IF validate_currency_inr(payment.currency).status # "ok"
  THEN validate_currency_inr(payment.currency)
  ELSE IF validate_money_is_inr(payment.amount).status # "ok"
  THEN validate_money_is_inr(payment.amount)
  ELSE IF validate_upi_vpa(payment.upi_vpa).status # "ok"
  THEN validate_upi_vpa(payment.upi_vpa)
  ELSE IF DecLe(payment.amount.amount, Zero)
  THEN [status |-> "ValidationError", msg |-> "Payment amount must be positive"]
  ELSE IF payment.method # "UPI"
  THEN [status |-> "ValidationError",
        msg |-> "Only UPI method is supported in India module"]
  ELSE Ok

\* process_payment_gateway(payment, client=client) on the client whose
\* tables are o and p.
process_payment_gateway(o, p, payment) ==
  IF PaymentInputError(payment).status # "ok"
  THEN Outcome(o, p, PaymentInputError(payment))
  ELSE ProcessAfterOrder(create_order(o, p, payment.amount, payment.order_id), payment)

----------------------------------------------------------------------------
(* Calls on one RazorpayClientMock *)

\* Most orders one client holds.
MaxOrders == 2

\* Most payments one client holds.
MaxPayments == 2

\* "user@upi", the VPA of the tests.
TestVpa == <<"u","s","e","r","@","u","p","i">>

\* "bad vpa"
BadVpa == <<"b","a","d"," ","v","p","a">>

\* "ORD123"
TestReceipt == <<"O","R","D","1","2","3">>

\* Money(Decimal("199.00"), "INR"), the amount of the tests.
TestMoney == Money(Dec(19900, 2), "INR")

\* Money(Decimal("0.50"), "INR")
LowMoney == Money(Dec(50, 2), "INR")

\* "ab@paytm"
ShortUserVpa == <<"a","b","@","p","a","y","t","m">>

GatewayMoneys == {TestMoney, LowMoney, Money(Dec(19900, 2), "USD")}

GatewayVpas == {TestVpa, BadVpa}

\* PaymentInput(order_id, amount, currency, method, upi_vpa)
PaymentInput(amount, currency, method, upi_vpa) ==
  [order_id |-> TestReceipt, amount |-> amount, currency |-> currency,
   method |-> method, upi_vpa |-> upi_vpa]

\* The payment of test_process_payment_success and that payment with one
\* field changed.
PaymentInputs ==
  {PaymentInput(m, "INR", "UPI", v) : m \in GatewayMoneys, v \in GatewayVpas}
  \cup {PaymentInput(TestMoney, "INR", "UPI", ShortUserVpa),
        PaymentInput(Money(Dec(1, 0), "INR"), "INR", "UPI", TestVpa),
        PaymentInput(TestMoney, "USD", "UPI", TestVpa),
        PaymentInput(TestMoney, "INR", "CARD", TestVpa),
        PaymentInput(Money(Dec(0, 2), "INR"), "INR", "UPI", TestVpa),
        PaymentInput(Money(Dec(0, 2), "INR"), "INR", "UPI", BadVpa)}

\* RazorpayClientMock(): both tables empty.
InitGateway ==
  /\ pc = "client"
  /\ op = "__init__"
  /\ args = <<>>
  /\ ret = NoRet
  /\ orders = <<>>
  /\ payments = <<>>

\* The tables and the return value after a call with outcome r.
Returns(r) ==
  /\ orders' = r.orders
  /\ payments' = r.payments
  /\ ret' = r.ret

CreateOrder ==
  /\ pc = "client"
  /\ Len(orders) < MaxOrders
  /\ \E amount \in GatewayMoneys :
       /\ op' = "create_order"
       /\ args' = [amount |-> amount, receipt |-> TestReceipt]
       /\ Returns(create_order(orders, payments, amount, TestReceipt))
  /\ UNCHANGED pc

CaptureUpiPayment ==
  /\ pc = "client"
  /\ Len(payments) < MaxPayments
  /\ \E order_id \in 0..MaxOrders, amount \in GatewayMoneys, vpa \in GatewayVpas :
       /\ op' = "capture_upi_payment"
       /\ args' = [order_id |-> order_id, amount |-> amount, vpa |-> vpa]
       /\ Returns(capture_upi_payment(orders, payments, order_id, amount, vpa))
  /\ UNCHANGED pc

ProcessPaymentGateway ==
  /\ pc = "client"
  /\ Len(orders) < MaxOrders
  /\ Len(payments) < MaxPayments
  /\ \E payment \in PaymentInputs :
       /\ op' = "process_payment_gateway"
       /\ args' = [payment |-> payment]
       /\ Returns(process_payment_gateway(orders, payments, payment))
  /\ UNCHANGED pc

NextGateway == CreateOrder \/ CaptureUpiPayment \/ ProcessPaymentGateway

SpecGateway == InitGateway /\ [][NextGateway]_vars

----------------------------------------------------------------------------
(* payment/gateways/razorpay/upi.py: validate_upi_vpa *)

\* The positions of "@" in s.
AtPositions(s) == {i \in 1..Len(s) : s[i] = "@"}

\* Steps 1.4 to 1.6 for a stripped vpa with one "@", at position i:
\* username, bank_code = vpa.split("@")
ValidateVpaParts(v, i) ==
  IF i - 1 < 3
  THEN [valid |-> FALSE, error |-> "UPI VPA username must be at least 3 characters"]
  ELSE IF Len(v) - i < 2
  THEN [valid |-> FALSE, error |-> "UPI VPA bank code is invalid"]
  ELSE [valid |-> TRUE, error |-> "None"]

\* razorpay.upi.validate_upi_vpa: returns (is_valid, error_message).
validate_upi_vpa_razorpay(vpa) ==
  IF vpa = None \/ Len(vpa) = 0
  THEN [valid |-> FALSE, error |-> "UPI VPA is required"]
  ELSE IF AtPositions(Strip(vpa)) = {}
  THEN [valid |-> FALSE, error |-> "UPI VPA must contain @ symbol"]
  ELSE IF Cardinality(AtPositions(Strip(vpa))) # 1
  THEN [valid |-> FALSE, error |-> "UPI VPA format is invalid (must be username@bank)"]
  ELSE ValidateVpaParts(Strip(vpa), CHOOSE i \in AtPositions(Strip(vpa)) : TRUE)

----------------------------------------------------------------------------
(* Inputs of the two VPA validators *)

\* "user@ok"
TwoCharHandleVpa == <<"u","s","e","r","@","o","k">>

VpaUsernames ==
  {<<>>, <<"a">>, <<"a","b">>, <<"a","b","c">>, <<"u","s","e","r">>,
   <<"a"," ","b">>, <<"a",".","b","-","_">>, <<"9","8","7","6">>, <<"a","b","!">>}

VpaHandles ==
  {<<>>, <<"p">>, <<"o","k">>, <<"u","p","i">>, <<"p","a","y","t","m">>,
   <<"u","p","1">>, <<"Y","b","l">>, <<"b","@","u","p","i">>}

VpaInputs ==
  { Blanks(l) \o u \o s \o h \o r :
      l \in 0..MaxPad, u \in VpaUsernames, s \in {<<>>, <<"@">>},
      h \in VpaHandles, r \in {<<>>, <<" ">>, <<"\n">>} }
  \cup {None, TestVpa, BadVpa, ShortUserVpa, TwoCharHandleVpa}

InitVpa ==
  /\ pc = "call"
  /\ op \in {"razorpay.upi.validate_upi_vpa", "india.validators.validate_upi_vpa"}
  /\ args \in [vpa : VpaInputs]
  /\ ret = NoRet
  /\ orders = <<>>
  /\ payments = <<>>

ValidateUpiVpaRazorpay ==
  /\ pc = "call"
  /\ op = "razorpay.upi.validate_upi_vpa"
  /\ ret' = validate_upi_vpa_razorpay(args.vpa)
  /\ pc' = "done"
  /\ UNCHANGED <<op, args, orders, payments>>

\* The validator returns None or raises: valid tells which.
ValidateUpiVpa ==
  /\ pc = "call"
  /\ op = "india.validators.validate_upi_vpa"
  /\ ret' = [valid |-> validate_upi_vpa(args.vpa).status = "ok",
             error |-> IF validate_upi_vpa(args.vpa).status = "ok" THEN "None"
                       ELSE validate_upi_vpa(args.vpa).msg]
  /\ pc' = "done"
  /\ UNCHANGED <<op, args, orders, payments>>

NextVpa == ValidateUpiVpaRazorpay \/ ValidateUpiVpa

SpecVpa == InitVpa /\ [][NextVpa]_vars

----------------------------------------------------------------------------
(* currency.py: convert_to_paisa, convert_from_paisa *)

\* A Python int hi * 10^5 + lo; 0 <= lo < 10^5 unless the int is negative.
BigInt(hi, lo) == [hi |-> hi, lo |-> lo]

\* isinstance(paisa, int)
IsInt(x) == "hi" \in DOMAIN x

\* paisa < 0
IntNegative(x) == x.hi < 0 \/ x.lo < 0

\* a == b for two Decimals that are not negative (equal by value).
PosEq(a, b) ==
  /\ IntPart(a) = IntPart(b)
  /\ FracPart(a) * Pow10(b.e) = FracPart(b) * Pow10(a.e)

\* int(amount * 100) dropping the rupees.
TimesHundredPaiseOnly(amount) == BigInt(0, (FracPart(amount) * 100) \div Pow10(amount.e))

\* int(amount * 100) for a Decimal that is not negative: 100 paisa for each
\* rupee and the first two fractional digits, anything beyond them cut off.
TimesHundred(amount) ==
  BigInt(IntPart(amount) \div 1000,
         (IntPart(amount) % 1000) * 100 + (FracPart(amount) * 100) \div Pow10(amount.e))

convert_to_paisa(amount) ==
  IF ~validate_inr_amount(amount, DefaultMinAmount).valid
  THEN [status |-> "ValueError", msg |-> validate_inr_amount(amount, DefaultMinAmount).error]
  ELSE [status |-> "ok", paisa |-> TimesHundred(amount)]

\* (Decimal(paisa) / 100).quantize(Decimal("0.01")) for paisa >= 0: the
\* quotient has two fractional digits and nothing is rounded away.
DividedByHundred(paisa) ==
  WideDec(paisa.hi * 1000 + paisa.lo \div 100, paisa.lo % 100, 2)

convert_from_paisa(paisa) ==
  IF ~IsInt(paisa)
  THEN [status |-> "TypeError", msg |-> "Paisa must be an integer"]
  ELSE IF IntNegative(paisa)
  THEN [status |-> "ValueError", msg |-> "Paisa cannot be negative"]
  ELSE [status |-> "ok", amount |-> DividedByHundred(paisa)]

----------------------------------------------------------------------------
(* Inputs of the currency functions *)

\* Amounts 0.00 .. MaxCurrencyPaisa/100 are drawn paisa by paisa.
MaxCurrencyPaisa == 130

\* "abc": an amount that Decimal(str(amount)) refuses.
NotADecimal == [str |-> <<"a","b","c">>]

\* The float 100.5.
FloatPaisa == [float |-> <<"1","0","0",".","5">>]

CurrencyAmounts ==
  {Dec(c, 2) : c \in 0..MaxCurrencyPaisa}
  \cup {Dec(0 - 100, 2), Dec(12345, 2), Dec(10050, 2), Dec(0, 0), Dec(1, 0), Dec(5, 0),
        Dec(15, 1), Dec(5, 1), Dec(999, 3), Dec(1000, 3), Dec(1005, 3), Dec(1, 3),
        Dec(MaxInrRupees, 0), Dec(MaxInrRupees + 1, 0), Dec(MaxInrRupees - 1, 0),
        Dec(MaxInrRupees * 10, 1), Dec(MaxInrRupees * 10 + 1, 1),
        WideDec(MaxInrRupees, 0, 2), WideDec(MaxInrRupees, 1, 2),
        WideDec(MaxInrRupees - 1, 99, 2), WideDec(MaxInrRupees, 0, 3),
        WideDec(21474836, 48, 2), WideDec(12345678, 90, 2), NotADecimal}

\* min_amount left out (None).
NoMinAmount == [none |-> TRUE]

\* Step 2.1: the minimum the checks use.
MinAmountOrDefault(min_amount) ==
  IF "none" \in DOMAIN min_amount THEN DefaultMinAmount ELSE min_amount

MinAmounts == {NoMinAmount, Dec(0, 0), Dec(50, 2), Dec(100, 2), Dec(5, 0)}

PaisaInputs ==
  {BigInt(0, n) : n \in {0, 1, 99, 100, 125, 5000, 10050, 99999}}
  \cup {BigInt(0, 0 - 100), BigInt(1, 0), BigInt(MaxInrRupees \div 1000, 0),
        BigInt(MaxInrRupees \div 1000, 1), FloatPaisa}

InitCurrency ==
  /\ pc = "call"
  /\ \/ op = "validate_inr_amount" /\ args \in [amount : CurrencyAmounts, min_amount : MinAmounts]
     \/ op = "convert_to_paisa" /\ args \in [amount : CurrencyAmounts \ {NotADecimal}]
     \/ op = "convert_from_paisa" /\ args \in [paisa : PaisaInputs]
  /\ ret = NoRet
  /\ orders = <<>>
  /\ payments = <<>>

ValidateInrAmount ==
  /\ pc = "call"
  /\ op = "validate_inr_amount"
  /\ ret' = validate_inr_amount(args.amount, MinAmountOrDefault(args.min_amount))
  /\ pc' = "done"
  /\ UNCHANGED <<op, args, orders, payments>>

ConvertToPaisa ==
  /\ pc = "call"
  /\ op = "convert_to_paisa"
  /\ ret' = convert_to_paisa(args.amount)
  /\ pc' = "done"
  /\ UNCHANGED <<op, args, orders, payments>>

ConvertFromPaisa ==
  /\ pc = "call"
  /\ op = "convert_from_paisa"
  /\ ret' = convert_from_paisa(args.paisa)
  /\ pc' = "done"
  /\ UNCHANGED <<op, args, orders, payments>>

\* convert_from_paisa applied to what convert_to_paisa returned, as in
\* test_paisa_round_trip; args keeps the original amount.
ConvertBack ==
  /\ pc = "done"
  /\ op = "convert_to_paisa"
  /\ ret.status = "ok"
  /\ op' = "convert_from_paisa"
  /\ args' = [paisa |-> ret.paisa, original |-> args.amount]
  /\ ret' = convert_from_paisa(ret.paisa)
  /\ pc' = "back"
  /\ UNCHANGED <<orders, payments>>

NextCurrency == ValidateInrAmount \/ ConvertToPaisa \/ ConvertFromPaisa \/ ConvertBack

SpecCurrency == InitCurrency /\ [][NextCurrency]_vars

----------------------------------------------------------------------------
(* currency.py: format_inr *)

RECURSIVE NatStr(_)
\* str(n) for an int n >= 0
NatStr(n) ==
  IF n < 10 THEN <<char_map[n + 1]>>
  ELSE NatStr(n \div 10) \o <<char_map[(n % 10) + 1]>>

\* The sign of a Decimal is negative.
IsNegative(a) == ~IsWide(a) /\ a.c < 0

\* abs(a)
AbsDec(a) == IF IsNegative(a) THEN Dec(0 - a.c, a.e) ELSE a

\* The paisa of the fractional part f / 10^e after quantize(Decimal("0.01")):
\* 100 when the rounding carries into the rupees.
QuantizedPaise(f, e) == IF e <= 2 THEN f * Pow10(2 - e) ELSE RoundHalfEven(f, Pow10(e - 2))

\* str(amount) of the quantized amount, split at the ".": the sign stays with
\* the integer part.
AmountStr(negative, whole, paise) ==
  [integer_part |-> (IF negative THEN <<"-">> ELSE <<>>) \o NatStr(whole + paise \div 100),
   decimal_part |-> TwoDigits(paise % 100)]

\* s[-n:]
LastChars(s, n) == IF Len(s) <= n THEN s ELSE SubSeq(s, Len(s) - n + 1, Len(s))

\* s[:-n]
DropLastChars(s, n) == IF Len(s) <= n THEN <<>> ELSE SubSeq(s, 1, Len(s) - n)

RECURSIVE GroupPairs(_, _)
\* The while loop of Step 1.4.
GroupPairs(remaining, formatted_remaining) ==
  IF remaining = <<>> THEN formatted_remaining
  ELSE GroupPairs(DropLastChars(remaining, 2),
                  LastChars(remaining, 2)
                    \o (IF formatted_remaining # <<>> THEN <<",">> \o formatted_remaining
                        ELSE formatted_remaining))

\* Step 1.4
FormattedInteger(integer_part) ==
  IF Len(integer_part) <= 3 THEN integer_part
  ELSE GroupPairs(DropLastChars(integer_part, 3), <<>>) \o <<",">> \o LastChars(integer_part, 3)

\* Steps 1.5 and 1.6
FormattedAmount(amount_str, include_symbol) ==
  (IF include_symbol THEN <<"₹">> ELSE <<>>)
    \o FormattedInteger(amount_str.integer_part) \o <<".">> \o amount_str.decimal_part

format_inr(amount, include_symbol) ==
  IF ~IsDecimal(amount)
  THEN [status |-> "ValueError", msg |-> "Invalid amount for INR formatting"]
  ELSE [status |-> "ok",
        value |-> FormattedAmount(
                    AmountStr(IsNegative(amount), IntPart(AbsDec(amount)),
                              QuantizedPaise(FracPart(AbsDec(amount)), amount.e)),
                    include_symbol)]

----------------------------------------------------------------------------
(* Inputs of format_inr *)

\* Amounts 0.00 .. MaxFormatPaisa/100 are drawn paisa by paisa.
MaxFormatPaisa == 20

\* Coefficients with 1 to 10 digits, so that the integer part has every
\* number of groups.
FormatCoefficients ==
  {9, 12, 99, 123, 999, 1000, 1234, 12345, 99999, 100000, 123456, 999999,
   1234567, 12345678, 123456789, 1234567890, 2147483647}

FormatAmounts ==
  {Dec(c, 2) : c \in 0..MaxFormatPaisa}
  \cup {Dec(c, e) : c \in FormatCoefficients, e \in {0, 2}}
  \cup {Dec(0 - c, e) : c \in FormatCoefficients, e \in {0, 2}}
  \cup {Dec(5, 3), Dec(15, 3), Dec(1005, 3), Dec(999995, 3), Dec(0 - 999995, 3),
        Dec(123456789, 3), Dec(15, 1), WideDec(MaxInrRupees, 0, 2),
        WideDec(123456789, 995, 3), NotADecimal}

InitFormat ==
  /\ pc = "call"
  /\ op = "format_inr"
  /\ args \in [amount : FormatAmounts, include_symbol : BOOLEAN]
  /\ ret = NoRet
  /\ orders = <<>>
  /\ payments = <<>>

FormatInr ==
  /\ pc = "call"
  /\ op = "format_inr"
  /\ ret' = format_inr(args.amount, args.include_symbol)
  /\ pc' = "done"
  /\ UNCHANGED <<op, args, orders, payments>>

NextFormat == FormatInr

SpecFormat == InitFormat /\ [][NextFormat]_vars

----------------------------------------------------------------------------
(* address.py: the state registry *)

\* INDIAN_STATES in the order of the dict literal.
INDIAN_STATES ==
  <<
    [code |-> <<"0","1">>, name |-> <<"J","a","m","m","u"," ","a","n","d"," ","K","a","s","h","m","i","r">>],
    [code |-> <<"0","2">>, name |-> <<"H","i","m","a","c","h","a","l"," ","P","r","a","d","e","s","h">>],
    [code |-> <<"0","3">>, name |-> <<"P","u","n","j","a","b">>],
    [code |-> <<"0","4">>, name |-> <<"C","h","a","n","d","i","g","a","r","h">>],
    [code |-> <<"0","5">>, name |-> <<"U","t","t","a","r","a","k","h","a","n","d">>],
    [code |-> <<"0","6">>, name |-> <<"H","a","r","y","a","n","a">>],
    [code |-> <<"0","7">>, name |-> <<"D","e","l","h","i">>],
    [code |-> <<"0","8">>, name |-> <<"R","a","j","a","s","t","h","a","n">>],
    [code |-> <<"0","9">>, name |-> <<"U","t","t","a","r"," ","P","r","a","d","e","s","h">>],
    [code |-> <<"1","0">>, name |-> <<"B","i","h","a","r">>],
    [code |-> <<"1","1">>, name |-> <<"S","i","k","k","i","m">>],
    [code |-> <<"1","2">>, name |-> <<"A","r","u","n","a","c","h","a","l"," ","P","r","a","d","e","s","h">>],
    [code |-> <<"1","3">>, name |-> <<"N","a","g","a","l","a","n","d">>],
    [code |-> <<"1","4">>, name |-> <<"M","a","n","i","p","u","r">>],
    [code |-> <<"1","5">>, name |-> <<"M","i","z","o","r","a","m">>],
    [code |-> <<"1","6">>, name |-> <<"T","r","i","p","u","r","a">>],
    [code |-> <<"1","7">>, name |-> <<"M","e","g","h","a","l","a","y","a">>],
    [code |-> <<"1","8">>, name |-> <<"A","s","s","a","m">>],
    [code |-> <<"1","9">>, name |-> <<"W","e","s","t"," ","B","e","n","g","a","l">>],
    [code |-> <<"2","0">>, name |-> <<"J","h","a","r","k","h","a","n","d">>],
    [code |-> <<"2","1">>, name |-> <<"O","d","i","s","h","a">>],
    [code |-> <<"2","2">>, name |-> <<"C","h","h","a","t","t","i","s","g","a","r","h">>],
    [code |-> <<"2","3">>, name |-> <<"M","a","d","h","y","a"," ","P","r","a","d","e","s","h">>],
    [code |-> <<"2","4">>, name |-> <<"G","u","j","a","r","a","t">>],
    [code |-> <<"2","5">>, name |-> <<"D","a","m","a","n"," ","a","n","d"," ","D","i","u">>],
    [code |-> <<"2","6">>, name |-> <<"D","a","d","r","a"," ","a","n","d"," ","N","a","g","a","r"," ","H","a","v","e","l","i">>],
    [code |-> <<"2","7">>, name |-> <<"M","a","h","a","r","a","s","h","t","r","a">>],
    [code |-> <<"2","8">>, name |-> <<"A","n","d","h","r","a"," ","P","r","a","d","e","s","h">>],
    [code |-> <<"2","9">>, name |-> <<"K","a","r","n","a","t","a","k","a">>],
    [code |-> <<"3","0">>, name |-> <<"G","o","a">>],
    [code |-> <<"3","1">>, name |-> <<"L","a","k","s","h","a","d","w","e","e","p">>],
    [code |-> <<"3","2">>, name |-> <<"K","e","r","a","l","a">>],
    [code |-> <<"3","3">>, name |-> <<"T","a","m","i","l"," ","N","a","d","u">>],
    [code |-> <<"3","4">>, name |-> <<"P","u","d","u","c","h","e","r","r","y">>],
    [code |-> <<"3","5">>, name |-> <<"A","n","d","a","m","a","n"," ","a","n","d"," ","N","i","c","o","b","a","r"," ","I","s","l","a","n","d","s">>],
    [code |-> <<"3","6">>, name |-> <<"T","e","l","a","n","g","a","n","a">>],
    [code |-> <<"3","7">>, name |-> <<"A","n","d","h","r","a"," ","P","r","a","d","e","s","h">>],
    [code |-> <<"3","8">>, name |-> <<"L","a","d","a","k","h">>]
  >>

\* A dict where the first value given for a key stays.
DictSetDefault(d, key, value) ==
  IF \E i \in DOMAIN d : d[i].name = key THEN d
  ELSE Append(d, [name |-> key, code |-> value])

\* d[key] = value on a dict kept as the sequence of its items: a key already
\* present keeps its place.
DictSet(d, key, value) ==
  IF \E i \in DOMAIN d : d[i].name = key
  THEN [i \in DOMAIN d |-> IF d[i].name = key THEN [name |-> key, code |-> value] ELSE d[i]]
  ELSE Append(d, [name |-> key, code |-> value])

RECURSIVE NameToCodeUpTo(_)
\* The dict comprehension after the first n items of INDIAN_STATES.
NameToCodeUpTo(n) ==
  IF n = 0 THEN <<>>
  ELSE DictSet(NameToCodeUpTo(n - 1), Upper(INDIAN_STATES[n].name), INDIAN_STATES[n].code)

STATE_NAME_TO_CODE == NameToCodeUpTo(Len(INDIAN_STATES))

\* key in INDIAN_STATES
IsStateCode(key) == \E i \in DOMAIN INDIAN_STATES : INDIAN_STATES[i].code = key

\* INDIAN_STATES[key]
StateNameOf(key) ==
  INDIAN_STATES[CHOOSE i \in DOMAIN INDIAN_STATES : INDIAN_STATES[i].code = key].name

\* a in b, for two str
IsSubstring(a, b) == \E i \in 0..(Len(b) - Len(a)) : SubSeq(b, i + 1, i + Len(a)) = a

\* str.isdigit() for a non-empty str of the model's characters.
IsDigit(s) == Len(s) > 0 /\ \A i \in 1..Len(s) : s[i] \in DigitChars

RECURSIVE Remove(_, _)
\* s.replace(c, "")
Remove(s, c) ==
  IF Len(s) = 0 THEN s
  ELSE IF s[1] = c THEN Remove(Tail(s), c)
  ELSE <<s[1]>> \o Remove(Tail(s), c)

----------------------------------------------------------------------------
(* address.py: validate_indian_pincode, validate_indian_state *)

\* pincode.strip().replace(" ", "").replace("-", "")
NormalizePincode(pincode) == Remove(Remove(Strip(pincode), " "), "-")

\* PINCODE_PATTERN.match(s), s without whitespace at its end
PINCODE_PATTERN(s) ==
  /\ Len(s) = 6
  /\ s[1] \in DigitChars \ {"0"}
  /\ \A i \in 2..6 : s[i] \in DigitChars

validate_indian_pincode(pincode) ==
  IF ~Truthy(pincode) THEN [valid |-> FALSE, error |-> "PIN code is required"]
  ELSE IF ~PINCODE_PATTERN(NormalizePincode(pincode))
  THEN [valid |-> FALSE, error |-> "PIN code must be 6 digits and cannot start with 0"]
  ELSE [valid |-> TRUE, error |-> "None"]

\* Step 5.4: the positions of STATE_NAME_TO_CODE whose name holds state_upper
\* or is held by it.
PartialMatches(state_upper) ==
  {i \in DOMAIN STATE_NAME_TO_CODE :
     \/ IsSubstring(state_upper, STATE_NAME_TO_CODE[i].name)
     \/ IsSubstring(STATE_NAME_TO_CODE[i].name, state_upper)}

\* The item the loop of Step 5.4 meets first.
FirstOf(positions) == CHOOSE i \in positions : \A j \in positions : i <= j

\* Steps 5.3 and 5.4 on state.strip().upper()
StateByName(state_upper) ==
  IF \E i \in DOMAIN STATE_NAME_TO_CODE : STATE_NAME_TO_CODE[i].name = state_upper
  THEN [valid |-> TRUE, error |-> "None",
        state_code |-> STATE_NAME_TO_CODE[CHOOSE i \in DOMAIN STATE_NAME_TO_CODE :
                                            STATE_NAME_TO_CODE[i].name = state_upper].code]
  ELSE IF PartialMatches(state_upper) # {}
  THEN [valid |-> TRUE, error |-> "None",
        state_code |-> STATE_NAME_TO_CODE[FirstOf(PartialMatches(state_upper))].code]
  ELSE [valid |-> FALSE, state_code |-> None, error |-> "Invalid state name or code"]

\* Steps 5.2 to 5.4 on state.strip()
StateStripped(state) ==
  IF Len(state) = 2 /\ IsDigit(state)
  THEN IF IsStateCode(state)
       THEN [valid |-> TRUE, state_code |-> state, error |-> "None"]
       ELSE [valid |-> FALSE, state_code |-> None, error |-> "Invalid state code"]
  ELSE StateByName(Upper(state))

validate_indian_state(state) ==
  IF ~Truthy(state) THEN [valid |-> FALSE, state_code |-> None, error |-> "State is required"]
  ELSE StateStripped(Strip(state))

get_state_code(state) ==
  IF validate_indian_state(state).valid THEN validate_indian_state(state).state_code ELSE None

get_state_name(state_code) == IF IsStateCode(state_code) THEN StateNameOf(state_code) ELSE None

----------------------------------------------------------------------------
(* address.py: validate_indian_address *)

\* "IN"
CountryIN == <<"I","N">>

\* errors.append(msg) when the rule is violated
AppendIf(errors, violated, msg) == IF violated THEN Append(errors, msg) ELSE errors

\* not s or not s.strip()
Blank(s) == ~Truthy(s) \/ Len(Strip(s)) = 0

\* Steps 6.2 to 6.4: the errors list, in the order it is filled.
AddressErrors(street_address_1, city, pincode_result, state_result) ==
  AppendIf(
    AppendIf(
      AppendIf(
        AppendIf(<<>>, Blank(street_address_1), "Street address is required"),
        Blank(city), "City is required"),
      ~pincode_result.valid, pincode_result.error),
    ~state_result.valid, state_result.error)

\* The address with the fields as they were given.
AddressAsGiven(street_address_1, city, state_code, postal_code, street_address_2) ==
  [status |-> "ok",
   street_address_1 |-> street_address_1,
   street_address_2 |-> IF Truthy(street_address_2) THEN street_address_2 ELSE <<>>,
   city |-> city,
   state |-> StateNameOf(state_code),
   state_code |-> state_code,
   postal_code |-> postal_code,
   country |-> CountryIN,
   is_valid |-> TRUE]

\* Step 6.6
NormalizedAddress(street_address_1, city, state_code, postal_code, street_address_2) ==
  [status |-> "ok",
   street_address_1 |-> Strip(street_address_1),
   street_address_2 |-> IF Truthy(street_address_2) THEN Strip(street_address_2) ELSE <<>>,
   city |-> Strip(city),
   state |-> StateNameOf(state_code),
   state_code |-> state_code,
   postal_code |-> NormalizePincode(postal_code),
   country |-> CountryIN,
   is_valid |-> TRUE]

\* Steps 6.5 and 6.6; the message of the exception is "; ".join(errors), kept
\* as the sequence of its parts.
AddressOutcome(errors, street_address_1, city, state_code, postal_code, street_address_2) ==
  IF errors # <<>>
  THEN [status |-> "IndianAddressValidationError", errors |-> errors]
  ELSE NormalizedAddress(street_address_1, city, state_code, postal_code, street_address_2)

\* Steps 6.2 to 6.6
AddressAfterCountry(street_address_1, city, state, postal_code, street_address_2) ==
  AddressOutcome(
    AddressErrors(street_address_1, city, validate_indian_pincode(postal_code),
                  validate_indian_state(state)),
    street_address_1, city, validate_indian_state(state).state_code, postal_code,
    street_address_2)

\* The country check put after the others, its error collected with theirs.
validate_indian_address_collecting_country(street_address_1, city, state, postal_code, country, street_address_2) ==
  IF country # None /\ Upper(country) # CountryIN
  THEN [status |-> "IndianAddressValidationError",
        errors |-> <<"Invalid country code for Indian address">>
                     \o AddressErrors(street_address_1, city,
                                      validate_indian_pincode(postal_code),
                                      validate_indian_state(state))]
  ELSE AddressAfterCountry(street_address_1, city, state, postal_code, street_address_2)

validate_indian_address(street_address_1, city, state, postal_code, country, street_address_2) ==
  IF country = None
  THEN [status |-> "AttributeError", errors |-> <<"'NoneType' object has no attribute 'upper'">>]
  ELSE IF Upper(country) # CountryIN
  THEN [status |-> "IndianAddressValidationError",
        errors |-> <<"Invalid country code for Indian address">>]
  ELSE AddressAfterCountry(street_address_1, city, state, postal_code, street_address_2)

----------------------------------------------------------------------------
(* Inputs of the address functions *)

StreetInputs ==
  {<<"1","2"," ","M","G"," ","R","d">>,
   <<" "," ","1","2"," ","M","G"," ","R","d"," "," ">>,
   <<>>,
   <<" ">>,
   None}

CityInputs ==
  {<<"P","u","n","e">>,
   <<" "," ","P","u","n","e"," "," ">>,
   <<>>,
   <<"\t">>,
   None}

StateInputs ==
  {<<"2","7">>,
   <<" ","2","7"," ">>,
   <<"M","a","h","a","r","a","s","h","t","r","a">>,
   <<" "," ","M","a","h","a","r","a","s","h","t","r","a"," "," ">>,
   <<"m","a","h","a","r","a","s","h","t","r","a">>,
   <<"A","n","d","h","r","a"," ","P","r","a","d","e","s","h">>,
   <<"2","8">>,
   <<"9","9">>,
   <<"0","0">>,
   <<"X","X">>,
   <<"P","r","a","d","e","s","h">>,
   <<>>,
   <<" ">>,
   None}

PincodeInputs ==
  {<<"4","0","0","0","0","1">>,
   <<" ","4","0","0"," ","0","0","1"," ">>,
   <<"4","0","0","-","0","0","1">>,
   <<"0","1","2","3","4","5">>,
   <<"4","0","0","0","0">>,
   <<"4","0","0","0","0","1","1">>,
   <<"4","0","0","0","0","a">>,
   <<>>,
   <<" "," ">>,
   None,
   <<"4","-","0"," ","0","-","0"," ","0"," ","1">>}

CountryInputs ==
  {<<"I","N">>,
   <<"i","n">>,
   <<"I","n">>,
   <<"U","S">>,
   <<>>,
   None}

Street2Inputs ==
  {None,
   <<>>,
   <<" ","A","p","t"," ","1"," ">>}

RegistryCodes == {INDIAN_STATES[i].code : i \in DOMAIN INDIAN_STATES}

RegistryNames == {INDIAN_STATES[i].name : i \in DOMAIN INDIAN_STATES}

AddressInputs ==
  [street_address_1 : StreetInputs, city : CityInputs, state : StateInputs,
   postal_code : PincodeInputs, country : CountryInputs,
   street_address_2 : Street2Inputs]

InitAddress ==
  /\ pc = "call"
  /\ \/ op = "validate_indian_address" /\ args \in AddressInputs
     \/ op = "validate_indian_pincode" /\ args \in [pincode : PincodeInputs]
     \/ op = "validate_indian_state" /\ args \in [state : StateInputs \cup RegistryNames]
     \/ op = "get_state_code" /\ args \in [state : StateInputs \cup RegistryCodes \cup RegistryNames]
     \/ op = "get_state_name" /\ args \in [state_code : StateInputs \cup RegistryCodes]
  /\ ret = NoRet
  /\ orders = <<>>
  /\ payments = <<>>

ValidateIndianAddress ==
  /\ pc = "call"
  /\ op = "validate_indian_address"
  /\ ret' = validate_indian_address(args.street_address_1, args.city, args.state,
                                    args.postal_code, args.country, args.street_address_2)
  /\ pc' = "done"
  /\ UNCHANGED <<op, args, orders, payments>>

ValidateIndianPincode ==
  /\ pc = "call"
  /\ op = "validate_indian_pincode"
  /\ ret' = validate_indian_pincode(args.pincode)
  /\ pc' = "done"
  /\ UNCHANGED <<op, args, orders, payments>>

ValidateIndianState ==
  /\ pc = "call"
  /\ op = "validate_indian_state"
  /\ ret' = validate_indian_state(args.state)
  /\ pc' = "done"
  /\ UNCHANGED <<op, args, orders, payments>>

GetStateCode ==
  /\ pc = "call"
  /\ op = "get_state_code"
  /\ ret' = [value |-> get_state_code(args.state)]
  /\ pc' = "done"
  /\ UNCHANGED <<op, args, orders, payments>>

GetStateName ==
  /\ pc = "call"
  /\ op = "get_state_name"
  /\ ret' = [value |-> get_state_name(args.state_code)]
  /\ pc' = "done"
  /\ UNCHANGED <<op, args, orders, payments>>

\* get_state_code applied to the name get_state_name returned; args keeps
\* the code the name was looked up for.
GetStateCodeOfName ==
  /\ pc = "done"
  /\ op = "get_state_name"
  /\ ret.value # None
  /\ op' = "get_state_code"
  /\ args' = [state |-> ret.value, state_code |-> args.state_code]
  /\ ret' = [value |-> get_state_code(ret.value)]
  /\ pc' = "back"
  /\ UNCHANGED <<orders, payments>>

NextAddress ==
  \/ ValidateIndianAddress
  \/ ValidateIndianPincode
  \/ ValidateIndianState
  \/ GetStateCode
  \/ GetStateName
  \/ GetStateCodeOfName

SpecAddress == InitAddress /\ [][NextAddress]_vars

----------------------------------------------------------------------------
(* india/services/discount.py: apply_discount *)

\* a - b on Decimals: the result carries the larger number of fractional
\* digits.
DecSub(a, b) ==
  LET e == IF a.e >= b.e THEN a.e ELSE b.e
  IN Dec(a.c * Pow10(e - a.e) - b.c * Pow10(e - b.e), e)

\* a > b on Decimals, compared at the larger number of fractional digits.
DecGt(a, b) == DecSub(a, b).c > 0

\* d / Decimal("100"): the exact quotient, with as many of d's fractional
\* digits as the quotient allows and no fewer.
DecDivHundred(d) ==
  IF d.c % 100 = 0 THEN Dec(d.c \div 100, d.e)
  ELSE IF d.c % 10 = 0 THEN Dec(d.c \div 10, d.e + 1)
  ELSE Dec(d.c, d.e + 2)

\* (base_total.amount * discount.value) / Decimal("100")
PercentageAmount(base_amount, value) ==
  DecDivHundred(Dec(base_amount.c * value.c, base_amount.e + value.e))

\* saleor.core.prices.quantize_price for INR: the amount at two fractional
\* digits.
quantize_price(money, currency) == Money(Dec(QuantizePaisa(money.amount), 2), currency)

\* saleor.core.prices.MAXIMUM_PRICE, in rupees: a price above every amount
\* drawn here.
MAXIMUM_PRICE == 1000000000

\* amount.amount > Decimal(MAXIMUM_PRICE)
AboveMaximumPrice(amount) ==
  \/ amount.amount.c \div Pow10(amount.amount.e) > MAXIMUM_PRICE
  \/ /\ amount.amount.c \div Pow10(amount.amount.e) = MAXIMUM_PRICE
     /\ amount.amount.c % Pow10(amount.amount.e) > 0

\* clamp_discount_amount from the comparison with max_value on.
ClampToMaxValue(amount, max_value) ==
  IF DecGt(amount.amount, max_value.amount)
  THEN quantize_price(max_value, max_value.currency)
  ELSE quantize_price(amount, amount.currency)

\* validators.clamp_discount_amount; apply_discount calls it with amounts of
\* one currency.
clamp_discount_amount(amount, max_value) ==
  IF AboveMaximumPrice(amount)
  THEN ClampToMaxValue(Money(Dec(MAXIMUM_PRICE, 0), amount.currency), max_value)
  ELSE ClampToMaxValue(amount, max_value)

validate_decimal_non_negative(value, field_name) ==
  IF DecLt(value, Zero)
  THEN [status |-> "ValueError", msg |-> field_name \o " must be non-negative"]
  ELSE Ok

validate_decimal_positive(value, field_name) ==
  IF DecLe(value, Zero)
  THEN [status |-> "ValueError", msg |-> field_name \o " must be positive"]
  ELSE Ok

\* DiscountInput.max_amount = None
NoMaxAmount == [none |-> TRUE]

ServiceValidationError(msg) == [status |-> "ValidationError", msg |-> msg]

\* types.DiscountResult
DiscountResult(base_total, discount_applied, final_total) ==
  [status |-> "ok", base_total |-> base_total,
   discount_applied |-> discount_applied, final_total |-> final_total]

\* apply_discount from the clamped discount_amount on: never more than the
\* base total; final = base - discount.
DiscountResultOf(base_total, discount_amount) ==
  IF DecGt(discount_amount.amount, base_total.amount)
  THEN DiscountResult(base_total, Money(base_total.amount, base_total.currency),
                      Money(DecSub(base_total.amount, base_total.amount),
                            base_total.currency))
  ELSE DiscountResult(base_total, discount_amount,
                      Money(DecSub(base_total.amount, discount_amount.amount),
                            base_total.currency))

\* apply_discount from the computed discount_amount on: the optional cap.
DiscountCapped(base_total, discount, discount_amount) ==
  IF discount.max_amount # NoMaxAmount
  THEN IF discount.max_amount.currency # base_total.currency
       THEN ServiceValidationError("max_amount currency mismatch")
       ELSE DiscountResultOf(base_total,
                             clamp_discount_amount(discount_amount, discount.max_amount))
  ELSE DiscountResultOf(base_total, discount_amount)

apply_discount(base_total, discount) ==
  IF validate_currency_inr(base_total.currency) # Ok
  THEN validate_currency_inr(base_total.currency)
  ELSE IF validate_currency_inr(discount.currency) # Ok
  THEN validate_currency_inr(discount.currency)
  ELSE IF DecLt(base_total.amount, Zero)
  THEN ServiceValidationError("Base total cannot be negative")
  ELSE IF discount.type = "PERCENTAGE"
  THEN IF validate_decimal_non_negative(discount.value, "discount.value") # Ok
       THEN validate_decimal_non_negative(discount.value, "discount.value")
       ELSE IF DecLt(Hundred, discount.value)
       THEN ServiceValidationError("Percentage discount cannot exceed 100")
       ELSE DiscountCapped(base_total, discount,
                           Money(PercentageAmount(base_total.amount, discount.value),
                                 base_total.currency))
  ELSE IF discount.type = "AMOUNT"
  THEN IF validate_decimal_positive(discount.value, "discount.value") # Ok
       THEN validate_decimal_positive(discount.value, "discount.value")
       ELSE DiscountCapped(base_total, discount,
                           Money(discount.value, base_total.currency))
  ELSE ServiceValidationError("Unsupported discount type")

\* Largest base total of the model beside the named ones, in paisa.
MaxBasePaisa == 6

BaseAmounts ==
  {Dec(c, 2) : c \in 0..MaxBasePaisa}
    \cup {Dec(1001, 2), Dec(10000, 2), Dec(0 - 1, 2), Dec(10005, 3), Dec(100, 0)}

BaseTotals == {Money(a, cur) : a \in BaseAmounts, cur \in {"INR", "USD"}}

ServiceDiscountValues ==
  {Dec(0, 0), Dec(20, 0), Dec(33, 0), Dec(125, 1), Dec(100, 0), Dec(101, 0),
   Dec(0 - 1, 0), Dec(500, 2), Dec(20000, 2)}

MaxAmounts ==
  {NoMaxAmount, Money(Dec(1500, 2), "INR"), Money(Dec(3, 2), "INR"),
   Money(Dec(15015, 3), "INR"), Money(Dec(0, 2), "INR"),
   Money(Dec(0 - 500, 2), "INR"), Money(Dec(1500, 2), "USD")}

\* types.DiscountInput
DiscountInputRecords ==
  [type : {"PERCENTAGE", "AMOUNT", "FIXED"}, value : ServiceDiscountValues,
   currency : {"INR", "USD"}, max_amount : MaxAmounts]

InitServiceDiscount ==
  /\ pc = "call"
  /\ op = "apply_discount"
  /\ args \in [base_total : BaseTotals, discount : DiscountInputRecords]
  /\ ret = NoRet
  /\ orders = <<>>
  /\ payments = <<>>

ApplyDiscount ==
  /\ pc = "call"
  /\ op = "apply_discount"
  /\ ret' = apply_discount(args.base_total, args.discount)
  /\ pc' = "done"
  /\ UNCHANGED <<op, args, orders, payments>>

NextServiceDiscount == ApplyDiscount

SpecServiceDiscount == InitServiceDiscount /\ [][NextServiceDiscount]_vars

----------------------------------------------------------------------------
(* order.py: calculate_order_gst_breakdown *)

\* gst_rate = Decimal("18.00"), the rate of every line.
OrderLineGstRate == Dec(1800, 2)

\* Step 3.1: the totals and line breakdowns before the first line.
NoLines ==
  [lines |-> <<>>, base_amount |-> 0, cgst |-> 0, sgst |-> 0, igst |-> 0,
   total_gst |-> 0]

\* The entry of line_breakdowns for a line.
LineBreakdown(line, line_gst) ==
  [line_id |-> line.id, product_name |-> line.product_name,
   quantity |-> line.quantity, base_amount |-> line_gst.base_amount,
   gst_rate |-> OrderLineGstRate, gst_amount |-> line_gst.total_gst,
   total_amount |-> line_gst.total_amount]

\* Step 3.2, "Add to totals" and "Store line breakdown".
AddLine(acc, line, line_gst) ==
  [lines |-> Append(acc.lines, LineBreakdown(line, line_gst)),
   base_amount |-> acc.base_amount + line_gst.base_amount,
   cgst |-> acc.cgst + line_gst.cgst,
   sgst |-> acc.sgst + line_gst.sgst,
   igst |-> acc.igst + line_gst.igst,
   total_gst |-> acc.total_gst + line_gst.total_gst]

\* "is_inter_state": total_igst > 0
OrderInterState(acc, billing_state_code, shipping_state_code) == acc.igst > 0

\* Step 3.3: the breakdown returned.
OrderBreakdown(acc, billing_state_code, shipping_state_code) ==
  [status |-> "ok",
   lines |-> acc.lines,
   totals |-> [base_amount |-> acc.base_amount, cgst |-> acc.cgst,
               sgst |-> acc.sgst, igst |-> acc.igst, total_gst |-> acc.total_gst,
               total_amount |-> acc.base_amount + acc.total_gst],
   is_inter_state |-> OrderInterState(acc, billing_state_code, shipping_state_code)]

RECURSIVE OrderLinesFrom(_, _, _, _, _)
RECURSIVE OrderLineAdded(_, _, _, _, _, _)
\* The loop over order_lines from line i on; a ValueError of calculate_gst
\* ends the call.
OrderLinesFrom(order_lines, i, billing_state_code, shipping_state_code, acc) ==
  IF i > Len(order_lines)
  THEN OrderBreakdown(acc, billing_state_code, shipping_state_code)
  ELSE OrderLineAdded(order_lines, i, billing_state_code, shipping_state_code, acc,
                      calculate_gst(order_lines[i].total_price_gross_amount,
                                    OrderLineGstRate, billing_state_code,
                                    shipping_state_code, TRUE))

OrderLineAdded(order_lines, i, billing_state_code, shipping_state_code, acc, line_gst) ==
  IF line_gst.status # "ok" THEN line_gst
  ELSE OrderLinesFrom(order_lines, i + 1, billing_state_code, shipping_state_code,
                      AddLine(acc, order_lines[i], line_gst))

calculate_order_gst_breakdown(order_lines, billing_state_code, shipping_state_code) ==
  OrderLinesFrom(order_lines, 1, billing_state_code, shipping_state_code, NoLines)

\* Longest list of order lines.
MaxLines == 2

\* "Shirt"
ProductName == <<"S","h","i","r","t">>

\* OrderLine: the fields the function reads.
OrderLine(id, quantity, total_price_gross_amount) ==
  [id |-> id, product_name |-> ProductName, quantity |-> quantity,
   total_price_gross_amount |-> total_price_gross_amount]

\* Gross line totals: 0.00, totals whose tax at 18% rounds to 0.00 (0.01,
\* 0.03), 0.10, 1.00, 118.00, 1180.00 and a negative total.
LineAmounts ==
  {Dec(0, 2), Dec(1, 2), Dec(3, 2), Dec(10, 2), Dec(100, 2), Dec(11800, 2),
   Dec(1180, 0), Dec(0 - 100, 2)}

\* The lists of up to n lines: line i has id i and quantity 2.
OrderLineLists(n) ==
  UNION {{[i \in 1..k |-> OrderLine(i, 2, amounts[i])] : amounts \in [1..k -> LineAmounts]}
           : k \in 0..n}

OrderBillingCodes == {<<"2","7">>, <<"0","7">>, <<"7">>, <<"9","9">>}

OrderShippingCodes == {None, <<>>, <<"2","7">>, <<"0","7">>, <<"7">>, <<"x">>}

InitOrder ==
  /\ pc = "call"
  /\ op = "calculate_order_gst_breakdown"
  /\ args \in [order_lines : OrderLineLists(MaxLines),
               billing_state_code : OrderBillingCodes,
               shipping_state_code : OrderShippingCodes]
  /\ ret = NoRet
  /\ orders = <<>>
  /\ payments = <<>>

CalculateOrderGstBreakdown ==
  /\ pc = "call"
  /\ op = "calculate_order_gst_breakdown"
  /\ ret' = calculate_order_gst_breakdown(args.order_lines, args.billing_state_code,
                                          args.shipping_state_code)
  /\ pc' = "done"
  /\ UNCHANGED <<op, args, orders, payments>>

NextOrder == CalculateOrderGstBreakdown

SpecOrder == InitOrder /\ [][NextOrder]_vars

----------------------------------------------------------------------------
(* The whole module: any one call, or the calls on one client *)

Init ==
  InitGstin \/ InitGst \/ InitDiscount \/ InitBulk \/ InitGateway \/ InitVpa
    \/ InitCurrency \/ InitAddress \/ InitFormat \/ InitServiceDiscount
    \/ InitOrder

Next ==
  \/ ValidateGstin
  \/ CalculateGst
  \/ ApplyDiscountWithGst
  \/ CalculateBulkDiscountWithGst
  \/ NextGateway
  \/ NextVpa
  \/ NextCurrency
  \/ NextAddress
  \/ NextFormat
  \/ NextServiceDiscount
  \/ NextOrder

Spec == Init /\ [][Next]_vars

----------------------------------------------------------------------------
(* Claims about calculate_gst, checked under SpecGst *)

\* |p - num/den| <= 1/2: p is num/den rounded to the nearest integer,
\* whichever way an exact half goes.
IsNearest(p, num, den) ==
  LET d == IF p * den >= num THEN p * den - num ELSE num - p * den
  IN 2 * d <= den

\* num/den lies exactly halfway between two integers.
IsHalf(num, den) == 2 * (num % den) = den

\* The fraction amount * 100 / (100 + gst_rate) in paisa, as num and den.
InclK(a, r) == IF Norm(a).e < 4 + Norm(r).e THEN Norm(a).e ELSE 4 + Norm(r).e

InclNum(a, r) == Norm(a).c * Pow10(4 + Norm(r).e - InclK(a, r))

InclDen(a, r) ==
  Pow10(Norm(a).e - InclK(a, r)) * (100 * Pow10(Norm(r).e) + Norm(r).c)

\* The exact base before quantization, in paisa, as num and den.
BaseNum(a) == IF a.include_gst THEN InclNum(a.amount, a.gst_rate) ELSE a.amount.c * 100

BaseDen(a) == IF a.include_gst THEN InclDen(a.amount, a.gst_rate) ELSE Pow10(a.amount.e)

Code27 == <<"2","7">>

Code07 == <<"0","7">>

\* (1000, 18%, "27", "27", tax-exclusive)
IsExclusiveExample(a) ==
  /\ DecLe(a.amount, Dec(1000, 0)) /\ DecLe(Dec(1000, 0), a.amount)
  /\ DecLe(a.gst_rate, Dec(18, 0)) /\ DecLe(Dec(18, 0), a.gst_rate)
  /\ a.billing_state_code = Code27 /\ a.shipping_state_code = Code27
  /\ ~a.include_gst

\* (1180, 18%, tax-inclusive)
IsInclusiveExample(a) ==
  /\ DecLe(a.amount, Dec(1180, 0)) /\ DecLe(Dec(1180, 0), a.amount)
  /\ DecLe(a.gst_rate, Dec(18, 0)) /\ DecLe(Dec(18, 0), a.gst_rate)
  /\ a.include_gst

\* The parts of C2 that do not depend on how the tax-exclusive base is stated.
C2_Common ==
  /\ args.include_gst =>
       IsNearest(ret.base_amount, InclNum(args.amount, args.gst_rate),
                 InclDen(args.amount, args.gst_rate))
  /\ IsNearest(ret.total_gst, ret.base_amount * args.gst_rate.c,
               100 * Pow10(args.gst_rate.e))
  /\ ret.total_amount = ret.base_amount + ret.total_gst
  /\ IsExclusiveExample(args) =>
       /\ ret.base_amount = 100000 /\ ret.total_gst = 18000
       /\ ret.cgst = 9000 /\ ret.sgst = 9000 /\ ret.igst = 0
       /\ ret.total_amount = 118000
  /\ IsInclusiveExample(args) =>
       ret.base_amount = 100000 /\ ret.total_amount = 118000

\* C2 as stated: for every valid input base_amount = amount when include_gst
\* is false, base_amount = amount*100/(100+gst_rate) rounded to 2 decimals
\* when it is true, total_gst = base_amount*gst_rate/100 rounded to 2
\* decimals and total_amount = base_amount + total_gst, with the two examples.
C2_BaseIsAmount ==
  GstReturned =>
    /\ C2_Common
    /\ ~args.include_gst => ret.base_amount * Pow10(args.amount.e) = args.amount.c * 100

\* C2 (amended): for every valid input base_amount is amount rounded to 2
\* decimals when include_gst is false (amount itself when it has at most 2
\* fractional digits), amount*100/(100+gst_rate) rounded to 2 decimals when
\* include_gst is true, total_gst = base_amount*gst_rate/100 rounded to 2
\* decimals, total_amount = base_amount + total_gst; (1000, 18%, "27", "27",
\* tax-exclusive) gives 1000.00, 180.00, 90.00, 90.00, 0 and 1180.00 and
\* (1180, 18%, tax-inclusive) gives base 1000.00 and total 1180.00.
C2_BaseIsAmountRounded ==
  GstReturned =>
    /\ C2_Common
    /\ ~args.include_gst =>
         /\ IsNearest(ret.base_amount, args.amount.c * 100, Pow10(args.amount.e))
         /\ args.amount.e <= 2 =>
              ret.base_amount * Pow10(args.amount.e) = args.amount.c * 100

\* The tax-inclusive example, 1180.00 at 18.00%, has returned base 1000.00
\* and tax 180.00.
C2_Witness ==
  GstReturned /\ IsInclusiveExample(args) /\ args.gst_rate = Dec(1800, 2)
    /\ ret.base_amount = 100000 /\ ret.total_gst = 18000

\* C3: for every valid (amount, rate, billing code) where the shipping code is
\* omitted or equals the billing code, is_inter_state = false, igst = 0,
\* cgst = sgst and cgst + sgst differs from total_gst by at most 0.01.
C3_IntraStateSplit ==
  (GstReturned /\ (args.shipping_state_code = None
                   \/ args.shipping_state_code = args.billing_state_code)) =>
    /\ ~ret.is_inter_state
    /\ ret.igst = 0
    /\ ret.cgst = ret.sgst
    /\ ret.cgst + ret.sgst - ret.total_gst \in {0 - 1, 0, 1}

\* An intra-state breakdown with shipping omitted whose halves do not add up.
C3_Witness ==
  GstReturned /\ args.shipping_state_code = None
    /\ ret.total_gst > 0 /\ ret.cgst + ret.sgst # ret.total_gst

\* The state number a state code denotes.
StateNumber(code) == ParseInt(code).val

\* C4: is_inter_state is true exactly when a shipping state code is provided
\* (a non-empty string) and denotes another state than the billing state code
\* does; then igst = total_gst and cgst = sgst = 0; 1000 at 18% with billing
\* "27" and shipping "07" gives igst 180.00.
C4_InterStateIffCodesDiffer ==
  GstReturned =>
    /\ ret.is_inter_state <=>
         (/\ args.shipping_state_code \notin {None, <<>>}
          /\ StateNumber(args.shipping_state_code) # StateNumber(args.billing_state_code))
    /\ ret.is_inter_state =>
         ret.igst = ret.total_gst /\ ret.cgst = 0 /\ ret.sgst = 0
    /\ (/\ args.amount = Dec(1000, 0) /\ args.gst_rate = Dec(1800, 2)
        /\ args.billing_state_code = Code27 /\ args.shipping_state_code = Code07
        /\ ~args.include_gst) =>
         ret.is_inter_state /\ ret.igst = 18000

\* 1000 at 18% from "27" to "07" has returned an inter-state breakdown.
C4_Witness ==
  GstReturned /\ args.amount = Dec(1000, 0) /\ args.gst_rate = Dec(1800, 2)
    /\ args.billing_state_code = Code27 /\ args.shipping_state_code = Code07
    /\ ~args.include_gst /\ ret.is_inter_state /\ ret.igst = 18000

\* C5 as stated: every breakdown satisfies total_gst = cgst + sgst + igst.
C5_ComponentsSumToTotal ==
  GstReturned => ret.total_gst = ret.cgst + ret.sgst + ret.igst

\* C5 (amended): total_gst = cgst + sgst + igst holds for every inter-state
\* breakdown and for every intra-state breakdown whose total_gst is an even
\* number of paisa; when total_gst is an odd number of paisa intra-state,
\* cgst + sgst + igst differs from total_gst by exactly 0.01.
C5_SumWithinOnePaisa ==
  GstReturned =>
    /\ (ret.is_inter_state \/ ret.total_gst % 2 = 0) =>
         ret.total_gst = ret.cgst + ret.sgst + ret.igst
    /\ (~ret.is_inter_state /\ ret.total_gst % 2 = 1) =>
         (ret.cgst + ret.sgst + ret.igst) - ret.total_gst \in {0 - 1, 1}

\* An intra-state breakdown with an odd number of paisa of tax.
C5_Witness ==
  GstReturned /\ ~ret.is_inter_state /\ ret.total_gst % 2 = 1
    /\ ret.cgst + ret.sgst + ret.igst # ret.total_gst

\* The exact total_gst before quantization, base_amount * gst_rate / 100.
GstNum == ret.base_amount * args.gst_rate.c

GstDen == 100 * Pow10(args.gst_rate.e)

\* C6 as stated: every quantization of calculate_gst rounds an exact half
\* away from zero, that is to the larger of the two paisa amounts.
C6_HalvesRoundUp ==
  GstReturned =>
    /\ IsHalf(BaseNum(args), BaseDen(args)) =>
         ret.base_amount = (BaseNum(args) \div BaseDen(args)) + 1
    /\ IsHalf(GstNum, GstDen) => ret.total_gst = (GstNum \div GstDen) + 1
    /\ (~ret.is_inter_state /\ ret.total_gst % 2 = 1) =>
         ret.cgst = (ret.total_gst \div 2) + 1 /\ ret.sgst = (ret.total_gst \div 2) + 1

\* C6 (amended): every quantization of calculate_gst rounds an exact half to
\* the neighbouring paisa amount that is even (round half to even): 0.025
\* gives 0.02, 0.005 gives 0.00 and 0.015 gives 0.02.
C6_HalvesRoundToEven ==
  GstReturned =>
    /\ IsHalf(BaseNum(args), BaseDen(args)) =>
         /\ ret.base_amount \in {BaseNum(args) \div BaseDen(args),
                                 (BaseNum(args) \div BaseDen(args)) + 1}
         /\ ret.base_amount % 2 = 0
    /\ IsHalf(GstNum, GstDen) =>
         /\ ret.total_gst \in {GstNum \div GstDen, (GstNum \div GstDen) + 1}
         /\ ret.total_gst % 2 = 0
    /\ (~ret.is_inter_state /\ ret.total_gst % 2 = 1) =>
         /\ ret.cgst \in {ret.total_gst \div 2, (ret.total_gst \div 2) + 1}
         /\ ret.cgst % 2 = 0
         /\ ret.sgst = ret.cgst
    /\ ret.total_amount = ret.base_amount + ret.total_gst

\* Base 0.50 at 5%: the tax 0.025 is an exact half and became 0.02, whose
\* halves 0.01 and 0.01 are exact.
C6_Witness ==
  GstReturned /\ ~args.include_gst /\ args.amount = Dec(50, 2)
    /\ args.gst_rate = Dec(5, 0) /\ ~ret.is_inter_state
    /\ IsHalf(GstNum, GstDen) /\ ret.total_gst = 2

\* C7: calculate_gst raises a validation error and returns no breakdown
\* whenever amount < 0, gst_rate < 0 or gst_rate > 100, the billing state code
\* does not parse to an integer in 1..38, or a provided (non-empty) shipping
\* state code does not parse to an integer in 1..38; for every other input it
\* returns a breakdown.
C7_RaisesIffInvalid ==
  (pc = "done" /\ op = "calculate_gst") =>
    /\ ret.status \in {"ok", "ValueError"}
    /\ ret.status = "ValueError" <=>
         \/ args.amount.c < 0
         \/ args.gst_rate.c < 0
         \/ args.gst_rate.c > 100 * Pow10(args.gst_rate.e)
         \/ ~(ParseInt(args.billing_state_code).ok
              /\ ParseInt(args.billing_state_code).val \in 1..38)
         \/ /\ args.shipping_state_code \notin {None, <<>>}
            /\ ~(ParseInt(args.shipping_state_code).ok
                 /\ ParseInt(args.shipping_state_code).val \in 1..38)

\* A call with valid amount, rate and billing code was refused for its
\* shipping state code alone.
C7_Witness ==
  pc = "done" /\ op = "calculate_gst" /\ ret.status = "ValueError"
    /\ args.amount.c >= 0 /\ args.gst_rate = Dec(1800, 2)
    /\ args.billing_state_code = Code27 /\ args.shipping_state_code = <<"9","9">>

----------------------------------------------------------------------------
(* Claims about apply_discount_with_gst, checked under SpecDiscount *)

\* The value of an input Decimal with at most 2 fractional digits is n rupees.
IsRupees(a, n) == a.e <= 2 /\ ToPaisaValue(a) = n * 100

\* C8: the discount is applied to the pre-tax base: the original base is
\* extracted from the tax-inclusive original amount, discount_on_base is
\* base*value/100 (percentage) or value*100/(100+rate) (fixed), each rounded
\* to 2 decimals, the new base is max(0, base - discount_on_base) and 'final'
\* is the tax-exclusive calculate_gst of the new base; 1180.00 with 10% at 18%
\* gives final base 900.00, total_gst 162.00, total 1062.00 and savings
\* 10.00%, and a 100% discount gives final base, gst and total of 0.00.
C8_DiscountOnBase ==
  DiscountReturned =>
    LET base == ret.original.base_amount
        dob == ret.discount.discount_on_base
        value == args.discount_value
        new_base == IF base - dob > 0 THEN base - dob ELSE 0
        final == calculate_gst(Dec(new_base, 2), args.gst_rate, args.billing_state_code,
                               args.shipping_state_code, FALSE)
    IN /\ IsNearest(base, InclNum(args.original_amount, args.gst_rate),
                    InclDen(args.original_amount, args.gst_rate))
       /\ args.discount_type = "percentage" =>
            IsNearest(dob, base * value.c, 100 * Pow10(value.e))
       /\ args.discount_type = "fixed" =>
            IsNearest(dob, InclNum(value, args.gst_rate), InclDen(value, args.gst_rate))
       /\ ret.final.base_amount = new_base
       /\ ret.final = [base_amount |-> final.base_amount, cgst |-> final.cgst,
                       sgst |-> final.sgst, igst |-> final.igst,
                       total_gst |-> final.total_gst,
                       total_amount |-> final.total_amount]
       /\ (/\ IsRupees(args.original_amount, 1180) /\ IsRupees(value, 10)
           /\ args.discount_type = "percentage" /\ IsRupees(args.gst_rate, 18)) =>
            /\ ret.final.base_amount = 90000 /\ ret.final.total_gst = 16200
            /\ ret.final.total_amount = 106200 /\ ret.savings.percentage = 1000
       /\ (args.discount_type = "percentage" /\ IsRupees(value, 100)) =>
            /\ ret.final.base_amount = 0 /\ ret.final.total_gst = 0
            /\ ret.final.total_amount = 0

\* 1180.00 less 10% at 18% has returned 900.00 + 162.00 = 1062.00.
C8_Witness ==
  DiscountReturned /\ args.original_amount = Dec(118000, 2)
    /\ args.discount_value = Dec(1000, 2) /\ args.discount_type = "percentage"
    /\ args.gst_rate = Dec(1800, 2) /\ ret.final.total_amount = 106200
    /\ ret.discount.discount_on_base = 10000

\* One of the precondition violations of apply_discount_with_gst that C9 lists.
C9_Violation(a) ==
  \/ ~validate_inr_amount(a.original_amount, Dec(100, 2)).valid
  \/ a.discount_type \notin {"fixed", "percentage"}
  \/ a.discount_type = "fixed" /\ ~validate_inr_amount(a.discount_value, Dec(0, 2)).valid
  \/ a.discount_type = "percentage"
       /\ (a.discount_value.c < 0 \/ a.discount_value.c > 100 * Pow10(a.discount_value.e))

\* C9: apply_discount_with_gst fails with IndianDiscountError, and returns no
\* result, for every precondition violation (invalid original amount, unknown
\* discount type, invalid fixed value, percentage outside [0,100]); no
\* violation surfaces as any other exception type.
C9_ViolationsRaiseIndianDiscountError ==
  (pc = "done" /\ op = "apply_discount_with_gst" /\ C9_Violation(args)) =>
    ret.status = "IndianDiscountError"

----------------------------------------------------------------------------
(* Claims about calculate_bulk_discount_with_gst, checked under SpecBulk *)

\* The positions of the tiers that the quantity reaches.
Qualifying(a) ==
  {i \in 1..Len(a.discount_tiers) : a.discount_tiers[i].min_qty <= a.quantity}

Tier5 == [min_qty |-> 5, discount_pct |-> 10]

Tier10 == [min_qty |-> 10, discount_pct |-> 20]

\* C10: among the tiers whose min_qty does not exceed the quantity the one
\* with the largest min_qty is selected (tiers {5,10%} and {10,20%} with
\* quantity 25 select the 20% tier in either list order); if no tier
\* qualifies, applied_tier is None, discount_percentage is 0, final_total =
\* item_price * quantity and final_per_item_price = item_price.
C10_HighestQualifyingTier ==
  BulkReturned =>
    /\ Qualifying(args) # {} =>
         /\ \E i \in Qualifying(args) : ret.applied_tier = args.discount_tiers[i]
         /\ \A i \in Qualifying(args) :
              args.discount_tiers[i].min_qty <= ret.applied_tier.min_qty
         /\ ret.discount_percentage = ret.applied_tier.discount_pct
    /\ Qualifying(args) = {} =>
         /\ ret.applied_tier = NoTier
         /\ ret.discount_percentage = 0
         /\ ret.final_total * Pow10(args.item_price.e)
              = args.item_price.c * args.quantity * 100
         /\ ret.final_per_item_price * Pow10(args.item_price.e) = args.item_price.c * 100
    /\ (args.quantity = 25
        /\ args.discount_tiers \in {<<Tier5, Tier10>>, <<Tier10, Tier5>>}) =>
         ret.applied_tier = Tier10 /\ ret.discount_percentage = 20

\* The lower tier is listed last and the quantity reaches both: the higher
\* tier was applied.
C10_Witness ==
  BulkReturned /\ args.discount_tiers = <<Tier10, Tier5>>
    /\ args.quantity > 10 /\ ret.applied_tier = Tier10 /\ ret.discounted

----------------------------------------------------------------------------
(* C1 *)

\* C1: validate_gstin accepts "27AAPFU0939F1ZV" and its lowercase form,
\* returning (True, None).
C1_TestGstinAccepted ==
  (pc = "done" /\ op = "validate_gstin" /\ args.gstin \in {TestGstin, TestGstinLower})
    => ret = [valid |-> TRUE, error |-> "None"]

----------------------------------------------------------------------------
(* C11 *)

\* The order of test_calculate_bulk_discount_per_item_price: 10 items of
\* 118.00 with the tier {10, 20%} at 18%.
IsPerItemExample(a) ==
  /\ a.item_price = Dec(11800, 2) /\ a.quantity = 10
  /\ a.discount_tiers = <<Tier10>> /\ a.gst_rate = Dec(1800, 2)

----------------------------------------------------------------------------
(* Claims about the Razorpay mock and the payment service, checked under
   SpecGateway *)

\* The last call was capture_upi_payment with an INR amount and a VPA that
\* the validator of the call accepts.
CapturedWithValidInput ==
  /\ op = "capture_upi_payment"
  /\ validate_money_is_inr(args.amount).status = "ok"
  /\ validate_upi_vpa(args.vpa).status = "ok"

\* C12: capture_upi_payment with a valid INR amount and a valid VPA returns
\* a payment: failed with ORDER_NOT_FOUND when the order id is unknown, else
\* failed with AMOUNT_TOO_LOW when the amount is below 1.00, else captured
\* without error code while the order becomes paid.
C12_CaptureReturnsPayment ==
  CapturedWithValidInput =>
    /\ ret.status = "ok"
    /\ IF ~OrderKnown(orders, args.order_id)
       THEN ret.payment.status = "failed" /\ ret.payment.error_code = "ORDER_NOT_FOUND"
       ELSE IF DecLt(args.amount.amount, Dec(1, 0))
       THEN ret.payment.status = "failed" /\ ret.payment.error_code = "AMOUNT_TOO_LOW"
       ELSE /\ ret.payment.status = "captured"
            /\ ret.payment.error_code = "None"
            /\ orders[args.order_id].status = "paid"

\* Some captured payment references the order.
HasCapturedPayment(order) ==
  \E j \in 1..Len(payments) :
    payments[j].status = "captured" /\ payments[j].order_id = order.id

\* The statuses the tables of the client hold.
StoredStatuses ==
  /\ \A j \in 1..Len(payments) : payments[j].status \in {"captured", "failed"}
  /\ \A i \in 1..Len(orders) : orders[i].status \in {"created", "paid"}
  /\ \A i \in 1..Len(orders) :
       orders[i].status = "paid" <=> HasCapturedPayment(orders[i])

\* An order that is paid is still stored and paid after the step.
PaidStaysPaid ==
  \A i \in 1..Len(orders) :
    orders[i].status = "paid" => i <= Len(orders') /\ orders'[i].status = "paid"

\* C13: after any sequence of create_order, capture_upi_payment (and
\* process_payment_gateway) calls on one client, every stored payment is
\* captured or failed, every stored order is created or paid, an order is
\* paid exactly when a captured payment references it, and a paid order never
\* returns to created.
C13_TerminalStatuses == [](StoredStatuses) /\ [][PaidStaysPaid]_vars

\* A paid order next to an order still created, with a failed payment and a
\* captured one stored.
C13_Witness ==
  /\ \E i, k \in 1..Len(orders) :
       orders[i].status = "paid" /\ orders[k].status = "created"
  /\ \E j, l \in 1..Len(payments) :
       payments[j].status = "captured" /\ payments[l].status = "failed"

\* The VPA passed to the last call (of capture_upi_payment or
\* process_payment_gateway).
CallVpa == IF op = "capture_upi_payment" THEN args.vpa ELSE args.payment.upi_vpa

\* The last call took a VPA and the validator of the call refuses it.
CalledWithMalformedVpa ==
  /\ op \in {"capture_upi_payment", "process_payment_gateway"}
  /\ validate_upi_vpa(CallVpa).status # "ok"

----------------------------------------------------------------------------
(* C15, checked under SpecVpa *)

\* s has exactly one "@", at least 3 characters before it and at least 2
\* after it.
VpaRule(s) ==
  /\ Cardinality(AtPositions(s)) = 1
  /\ \A i \in AtPositions(s) : i - 1 >= 3 /\ Len(s) - i >= 2

\* C15: each of the two VPA validators rejects a VPA unless it has exactly
\* one "@", a username of at least 3 characters and a handle of at least 2
\* characters; "ab@paytm" is rejected, and a handle of 2 characters is not
\* a reason for rejection ("user@ok" is accepted).
C15_ValidatorsEnforceVpaRule ==
  (pc = "done" /\ op \in {"razorpay.upi.validate_upi_vpa",
                          "india.validators.validate_upi_vpa"}) =>
    /\ ret.valid => args.vpa # None /\ VpaRule(Strip(args.vpa))
    /\ args.vpa = ShortUserVpa => ~ret.valid
    /\ args.vpa = TwoCharHandleVpa => ret.valid

\* The same statement for the validator of razorpay/upi.py alone.
RazorpayValidatorEnforcesVpaRule ==
  (pc = "done" /\ op = "razorpay.upi.validate_upi_vpa") =>
    /\ ret.valid <=> (args.vpa # None /\ VpaRule(Strip(args.vpa)))

----------------------------------------------------------------------------
(* C16, checked under SpecGateway *)

\* The last call was process_payment_gateway for an INR payment by UPI with
\* a VPA its validator accepts and a positive amount.
ProcessedValidPayment ==
  /\ op = "process_payment_gateway"
  /\ PaymentInputError(args.payment).status = "ok"

\* C16: for an INR payment with method UPI, valid VPA and positive amount,
\* process_payment_gateway returns a PaymentResult: success is true exactly
\* when the status is captured (then error_code is None), and an amount
\* below 1.00 gives success = false, status failed, error_code AMOUNT_TOO_LOW.
C16_GatewayFailuresAreResults ==
  ProcessedValidPayment =>
    /\ ret.status = "ok"
    /\ ret.success <=> ret.payment_status = "captured"
    /\ ret.success => ret.error_code = "None"
    /\ DecLt(args.payment.amount.amount, Dec(1, 0)) =>
         /\ ~ret.success
         /\ ret.payment_status = "failed"
         /\ ret.error_code = "AMOUNT_TOO_LOW"


\* x has at most 2 fractional digits and 1.00 <= x <= 100000000.00.
InPaisaRange(x) ==
  /\ x.e <= 2
  /\ IntPart(x) >= 1
  /\ IntPart(x) < MaxInrRupees \/ (IntPart(x) = MaxInrRupees /\ FracPart(x) = 0)

\* The int n is exactly x * 100.
IsHundredTimes(n, x) ==
  /\ n.lo \in 0..(Pow10(5) - 1)
  /\ n.hi * 1000 + n.lo \div 100 = IntPart(x)
  /\ (n.lo % 100) * Pow10(x.e) = FracPart(x) * 100

\* C17: for every amount x with at most 2 fractional digits in
\* [1.00, 100000000.00], convert_to_paisa(x) is exactly x * 100 and
\* convert_from_paisa of that result is x again.
C17_PaisaRoundTrip ==
  /\ (pc = "done" /\ op = "convert_to_paisa" /\ InPaisaRange(args.amount))
       => (ret.status = "ok" /\ IsHundredTimes(ret.paisa, args.amount))
  /\ (pc = "back" /\ InPaisaRange(args.original))
       => (ret.status = "ok" /\ PosEq(ret.amount, args.original))

\* The ceiling 100000000.00 has gone to paisa and back.
C17_Witness ==
  /\ pc = "back"
  /\ args.original = WideDec(MaxInrRupees, 0, 2)
  /\ args.paisa = BigInt(MaxInrRupees \div 1000, 0)
  /\ ret.status = "ok"

\* a >= b for two Decimals that are not negative.
AtLeast(a, b) ==
  \/ IntPart(a) > IntPart(b)
  \/ /\ IntPart(a) = IntPart(b)
     /\ FracPart(a) * Pow10(b.e) >= FracPart(b) * Pow10(a.e)

\* What the contract of validate_inr_amount asks of a Decimal amount.
WithinInrLimits(amount, min_amount) ==
  /\ DecSign(amount) > 0
  /\ AtLeast(amount, min_amount)
  /\ amount.e <= 2
  /\ IntPart(amount) < MaxInrRupees \/ (IntPart(amount) = MaxInrRupees /\ FracPart(amount) = 0)

ValidatedInrAmount == pc = "done" /\ op = "validate_inr_amount"

\* validate_inr_amount(amount, min_amount) has returned valid or not.
InrExample(amount, min_amount, valid) ==
  (ValidatedInrAmount /\ args.amount = amount /\ args.min_amount = min_amount)
    => ret.valid = valid

----------------------------------------------------------------------------
(* C19, C20 *)

ValidatedGstin == pc = "done" /\ op = "validate_gstin"

\* The GSTIN as the checks after the first see it.
Normalized(gstin) == Upper(Strip(gstin))

\* The first two characters read as a number; g matches the pattern.
StateCodeOf(g) == CharIndex(g[1]) * 10 + CharIndex(g[2])

\* The checks of validate_gstin, each taken alone.
GstinNonEmpty(gstin) == gstin # <<>>
GstinLengthOk(gstin) == Len(Normalized(gstin)) = 15
GstinFormatOk(gstin) == GSTIN_PATTERN(Normalized(gstin))
GstinStateOk(gstin) == StateCodeOf(Normalized(gstin)) \in 1..38
GstinChecksumOk(gstin) == _validate_gstin_checksum(Normalized(gstin))

\* "99AAPFU0939F1ZV"
StateCode99Gstin == <<"9","9">> \o SubSeq(TestGstin, 3, 15)

\* C19: validate_gstin reports the reason of the first check that fails, in
\* the order non-empty, length 15 after trim and uppercase, format pattern,
\* state code in 1..38, checksum; "99AAPFU0939F1ZV" fails with the state-code
\* error and not with the checksum error; success returns no error.
C19_FirstFailingCheckReported ==
  ValidatedGstin =>
    /\ ret.error = "GSTIN is required" <=> ~GstinNonEmpty(args.gstin)
    /\ ret.error = "GSTIN must be 15 characters long"
         <=> (GstinNonEmpty(args.gstin) /\ ~GstinLengthOk(args.gstin))
    /\ ret.error = "GSTIN format is invalid"
         <=> (GstinNonEmpty(args.gstin) /\ GstinLengthOk(args.gstin)
                /\ ~GstinFormatOk(args.gstin))
    /\ ret.error \in {"Invalid state code", "State code must be numeric"}
         <=> (GstinNonEmpty(args.gstin) /\ GstinLengthOk(args.gstin)
                /\ GstinFormatOk(args.gstin) /\ ~GstinStateOk(args.gstin))
    /\ ret.error = "GSTIN checksum validation failed"
         <=> (GstinNonEmpty(args.gstin) /\ GstinLengthOk(args.gstin)
                /\ GstinFormatOk(args.gstin) /\ GstinStateOk(args.gstin)
                /\ ~GstinChecksumOk(args.gstin))
    /\ ret.valid <=> ret.error = "None"
    /\ ret.valid
         <=> (GstinNonEmpty(args.gstin) /\ GstinLengthOk(args.gstin)
                /\ GstinFormatOk(args.gstin) /\ GstinStateOk(args.gstin)
                /\ GstinChecksumOk(args.gstin))
    /\ args.gstin = StateCode99Gstin
         => ret = [valid |-> FALSE, error |-> "Invalid state code"]

\* "99AAPFU0939F1ZV" was refused for its state code, although its last
\* character is not the checksum character either.
C19_Witness ==
  /\ ValidatedGstin
  /\ args.gstin = StateCode99Gstin
  /\ ~GstinChecksumOk(args.gstin)
  /\ ret.error = "Invalid state code"

\* g with its 15th character replaced.
WithTrailing(g, c) == [g EXCEPT ![15] = c]

\* The 15th characters with which validate_gstin accepts the prefix of g.
AcceptedTrailing(g) == {c \in AlnumChars : validate_gstin(WithTrailing(g, c)).valid}

\* gstin is a 14-character prefix and a 15th character, and the prefix
\* passes the format and state-code checks.
PassesFormatAndState(gstin) ==
  /\ Len(gstin) = 15
  /\ GstinFormatOk(gstin) /\ GstinStateOk(gstin)

\* Every other trailing character of 0-9A-Z fails with the checksum error.
OthersFailChecksum(g) ==
  \A c \in AlnumChars \ {UpperChar(g[15])} :
    validate_gstin(WithTrailing(g, c))
      = [valid |-> FALSE, error |-> "GSTIN checksum validation failed"]

\* C20: for every 14-character prefix that passes the format and state-code
\* checks exactly one 15th character makes validate_gstin succeed; replacing
\* the trailing character of an accepted GSTIN by any other character of
\* 0-9A-Z makes validation fail with the checksum error.
C20_ExactlyOneChecksumChar ==
  (ValidatedGstin /\ PassesFormatAndState(args.gstin)) =>
    /\ Cardinality(AcceptedTrailing(args.gstin)) = 1
    /\ ret.valid => OthersFailChecksum(args.gstin)
    /\ ~ret.valid => ret.error = "GSTIN checksum validation failed"

\* "27AAPFU0939F1ZT" was accepted: T is the one character accepted after
\* "27AAPFU0939F1Z".
C20_Witness ==
  /\ ValidatedGstin
  /\ args.gstin = [TestGstin EXCEPT ![15] = "T"]
  /\ ret.valid


----------------------------------------------------------------------------
(* C21, C22 *)

ValidatedAddress == pc = "done" /\ op = "validate_indian_address"

\* The message of one rule when it is violated, nothing otherwise.
RuleError(violated, msg) == IF violated THEN <<msg>> ELSE <<>>

\* The messages of the violated rules of an address in the order street,
\* city, PIN code, state.
ViolatedRules(a) ==
  RuleError(Blank(a.street_address_1), "Street address is required")
    \o RuleError(Blank(a.city), "City is required")
    \o RuleError(~validate_indian_pincode(a.postal_code).valid,
                 validate_indian_pincode(a.postal_code).error)
    \o RuleError(~validate_indian_state(a.state).valid,
                 validate_indian_state(a.state).error)

CountryErrorAlone ==
  [status |-> "IndianAddressValidationError",
   errors |-> <<"Invalid country code for Indian address">>]

\* With the country accepted, the call fails with every violated rule, or
\* succeeds when there is none.
AllViolatedRulesReported ==
  IF ViolatedRules(args) # <<>>
  THEN ret = [status |-> "IndianAddressValidationError", errors |-> ViolatedRules(args)]
  ELSE ret.status = "ok"

IsPin(s) ==
  /\ Len(s) = 6
  /\ s[1] \in {"1","2","3","4","5","6","7","8","9"}
  /\ \A i \in 2..6 : s[i] \in {"0","1","2","3","4","5","6","7","8","9"}

NotSpaceOrHyphen(c) == c \notin {" ", "-"}

\* code is a key of the registry and name is its name there.
InRegistry(code, name) ==
  \E i \in DOMAIN INDIAN_STATES :
    INDIAN_STATES[i].code = code /\ INDIAN_STATES[i].name = name

\* C22: every address validate_indian_address returns has country 'IN', a
\* postal_code matching [1-9][0-9]{5} that is the input with spaces and
\* hyphens removed, a state_code that is a key of the state registry with
\* state the registry's name for it, and street and city equal to the inputs
\* with surrounding whitespace trimmed.
C22_ReturnedAddressNormalized ==
  (ValidatedAddress /\ ret.status = "ok") =>
    /\ ret.country = <<"I", "N">>
    /\ IsPin(ret.postal_code)
    /\ ret.postal_code = SelectSeq(Strip(args.postal_code), NotSpaceOrHyphen)
    /\ InRegistry(ret.state_code, ret.state)
    /\ ret.street_address_1 = Strip(args.street_address_1)
    /\ ret.city = Strip(args.city)
    /\ ret.is_valid

\* The address of test_validate_address_whitespace_handling in short: padded
\* street, city and state name, and a PIN code with blanks inside.
C22_Witness ==
  /\ ValidatedAddress
  /\ args.street_address_1 = <<" "," ","1","2"," ","M","G"," ","R","d"," "," ">>
  /\ args.city = <<" "," ","P","u","n","e"," "," ">>
  /\ args.state = <<" "," ","M","a","h","a","r","a","s","h","t","r","a"," "," ">>
  /\ args.postal_code = <<" ","4","0","0"," ","0","0","1"," ">>
  /\ ret.status = "ok"
  /\ ret.state_code = <<"2","7">>


----------------------------------------------------------------------------
(* C23 *)

GotStateCode == pc = "done" /\ op = "get_state_code"

\* get_state_code has been applied to the name get_state_name gave for
\* args.state_code.
LookedUpByName == pc = "back" /\ op = "get_state_code"

AndhraPradesh == <<"A","n","d","h","r","a"," ","P","r","a","d","e","s","h">>

\* C23: get_state_code(c) = c for every registry code c;
\* get_state_code(get_state_name(c)) = c for every registry code c other than
\* '28'; 'Andhra Pradesh' looked up by name gives '37', and no lookup by a
\* name gives '28'.
C23_RegistryRoundTrip ==
  /\ (GotStateCode /\ \E i \in DOMAIN INDIAN_STATES : INDIAN_STATES[i].code = args.state)
       => ret.value = args.state
  /\ (LookedUpByName /\ args.state_code # <<"2","8">>) => ret.value = args.state_code
  /\ (LookedUpByName /\ args.state_code = <<"2","8">>) => ret.value = <<"3","7">>
  /\ (GotStateCode /\ args.state = AndhraPradesh) => ret.value = <<"3","7">>
  /\ (GotStateCode /\ ret.value = <<"2","8">>) => Strip(args.state) = <<"2","8">>

\* The name of code '28' was looked up and gave '37'.
C23_Witness ==
  /\ LookedUpByName
  /\ args.state_code = <<"2","8">>
  /\ args.state = AndhraPradesh
  /\ ret.value = <<"3","7">>


----------------------------------------------------------------------------
(* C24 *)

FormattedInr == pc = "done" /\ op = "format_inr" /\ ret.status = "ok"

\* The decimal digits of n, at least k of them.
RECURSIVE PaddedDigits(_, _)
PaddedDigits(n, k) ==
  IF k <= 1 /\ n < 10 THEN <<char_map[n + 1]>>
  ELSE PaddedDigits(n \div 10, k - 1) \o <<char_map[(n % 10) + 1]>>

RECURSIVE GroupsOfTwo(_)
\* n >= 0 written in comma-separated groups of 2 digits, the leftmost of 1 or 2.
GroupsOfTwo(n) ==
  IF n < 100 THEN PaddedDigits(n, 1)
  ELSE GroupsOfTwo(n \div 100) \o <<",">> \o PaddedDigits(n % 100, 2)

\* n >= 0 in the Indian convention: the last 3 digits form one group and the
\* digits to their left form groups of 2.
IndianGrouping(n) ==
  IF n < 1000 THEN PaddedDigits(n, 1)
  ELSE GroupsOfTwo(n \div 1000) \o <<",">> \o PaddedDigits(n % 1000, 3)

\* The rupees and paisa of |amount| quantized to 2 decimals.
QuantizedRupees(a) ==
  IntPart(AbsDec(a)) + QuantizedPaise(FracPart(AbsDec(a)), a.e) \div 100

QuantizedPaisa(a) == QuantizedPaise(FracPart(AbsDec(a)), a.e) % 100

\* The output the convention gives: symbol, sign, grouped integer part,
\* point, two digits.
IndianFormat(a, include_symbol) ==
  (IF include_symbol THEN <<"₹">> ELSE <<>>)
    \o (IF IsNegative(a) THEN <<"-">> ELSE <<>>)
    \o IndianGrouping(QuantizedRupees(a)) \o <<".">> \o PaddedDigits(QuantizedPaisa(a), 2)

\* A comma leads the output or stands next to a sign.
CommaLeadsOrTouchesSign(s) ==
  \/ (Len(s) > 0 /\ s[1] = ",")
  \/ \E i \in 1..(Len(s) - 1) :
       \/ (s[i] \in {"-", "₹"} /\ s[i + 1] = ",")
       \/ (s[i] = "," /\ s[i + 1] = "-")

FormatExample(c, include_symbol, value) ==
  (FormattedInr /\ args.amount = Dec(c, 2) /\ args.include_symbol = include_symbol)
    => ret.value = value

\* C24: format_inr groups the integer part of the amount quantized to 2
\* decimals in the Indian convention (last 3 digits one group, groups of 2 to
\* their left), no comma is adjacent to a sign or leads the output, 1234.56
\* gives "₹1,234.56", 123456.78 gives "₹1,23,456.78", 12345678.90 gives
\* "₹1,23,45,678.90", and the symbol is omitted when include_symbol is false.
C24_IndianGrouping ==
  /\ FormattedInr =>
       /\ ret.value = IndianFormat(args.amount, args.include_symbol)
       /\ ~CommaLeadsOrTouchesSign(ret.value)
  /\ FormatExample(123456, TRUE, <<"₹","1",",","2","3","4",".","5","6">>)
  /\ FormatExample(12345678, TRUE, <<"₹","1",",","2","3",",","4","5","6",".","7","8">>)
  /\ FormatExample(1234567890, TRUE,
                   <<"₹","1",",","2","3",",","4","5",",","6","7","8",".","9","0">>)
  /\ FormatExample(123456, FALSE, <<"1",",","2","3","4",".","5","6">>)

\* The same for amounts that are not negative.
NonNegativeIndianGrouping ==
  (FormattedInr /\ ~IsNegative(args.amount)) =>
    /\ ret.value = IndianFormat(args.amount, args.include_symbol)
    /\ ~CommaLeadsOrTouchesSign(ret.value)

----------------------------------------------------------------------------
(* Claims about services.apply_discount, checked under SpecServiceDiscount *)

ServiceDiscountApplied == pc = "done" /\ op = "apply_discount"

\* a <= b by value, whatever the numbers of fractional digits
NotMoreThan(a, b) ==
  a.c * Pow10((IF a.e >= b.e THEN a.e ELSE b.e) - a.e)
    <= b.c * Pow10((IF a.e >= b.e THEN a.e ELSE b.e) - b.e)

SameValue(a, b) == NotMoreThan(a, b) /\ NotMoreThan(b, a)

CapGiven == args.discount.max_amount # NoMaxAmount

\* a + b at the larger number of fractional digits
SumOf(a, b) ==
  Dec(a.c * Pow10((IF a.e >= b.e THEN a.e ELSE b.e) - a.e)
        + b.c * Pow10((IF a.e >= b.e THEN a.e ELSE b.e) - b.e),
      IF a.e >= b.e THEN a.e ELSE b.e)

\* base_total = final_total + discount_applied, and neither the discount
\* exceeds the base nor the final total falls below zero.
SplitsBaseTotal ==
  /\ NotMoreThan(ret.discount_applied.amount, args.base_total.amount)
  /\ NotMoreThan(Zero, ret.final_total.amount)
  /\ SameValue(SumOf(ret.final_total.amount, ret.discount_applied.amount),
               args.base_total.amount)

NonInrRejected ==
  (args.base_total.currency # "INR" \/ args.discount.currency # "INR")
    => ret.status # "ok"

\* C25: apply_discount never discounts more than the base total or the cap:
\* for an accepted INR base total, discount_applied <= base_total,
\* discount_applied <= max_amount when max_amount is given, final_total =
\* base_total - discount_applied and final_total >= 0; a base or discount
\* currency other than INR is rejected with an error.
C25_NeverMoreThanBaseOrCap ==
  ServiceDiscountApplied =>
    /\ NonInrRejected
    /\ ret.status = "ok" =>
         /\ SplitsBaseTotal
         /\ CapGiven => NotMoreThan(ret.discount_applied.amount,
                                    args.discount.max_amount.amount)

\* What holds of the cap: the discount is at most the cap at two fractional
\* digits, which exceeds a cap of three fractional digits by up to half a
\* paisa.
WithinBaseAndQuantizedCap ==
  ServiceDiscountApplied =>
    /\ NonInrRejected
    /\ ret.status = "ok" =>
         /\ SplitsBaseTotal
         /\ CapGiven =>
              /\ 2 * (ret.discount_applied.amount.c
                        * Pow10(3 - ret.discount_applied.amount.e)
                      - args.discount.max_amount.amount.c
                          * Pow10(3 - args.discount.max_amount.amount.e)) <= 10
              /\ args.discount.max_amount.amount.e <= 2
                   => NotMoreThan(ret.discount_applied.amount,
                                  args.discount.max_amount.amount)

\* C26: apply_discount always returns quantized Money amounts: for every
\* accepted input, with or without max_amount, discount_applied and
\* final_total have at most 2 fractional digits.
C26_ReturnsQuantizedAmounts ==
  (ServiceDiscountApplied /\ ret.status = "ok") =>
    /\ ret.discount_applied.amount.e <= 2
    /\ ret.final_total.amount.e <= 2

\* What holds: only a discount that went through the cap and does not exceed
\* the base total is quantized.
CappedDiscountQuantized ==
  (ServiceDiscountApplied /\ ret.status = "ok" /\ CapGiven
     /\ ~SameValue(ret.discount_applied.amount, args.base_total.amount)) =>
    ret.discount_applied.amount.e = 2

----------------------------------------------------------------------------
(* C27, checked under SpecGateway *)

\* The step is a call of capture_upi_payment whose amount is in INR and
\* whose VPA the validator accepts.
CaptureValidatedCall ==
  /\ op' = "capture_upi_payment"
  /\ args'.amount.currency = "INR"
  /\ validate_upi_vpa(args'.vpa) = Ok

\* The payment the call has stored.
StoredPayment == payments'[Len(payments')]

\* One record more, under an id no stored payment has; the records stored
\* before are as they were.
AddsOnePayment ==
  /\ Len(payments') = Len(payments) + 1
  /\ \A i \in 1..Len(payments) : payments'[i] = payments[i]
  /\ \A i \in 1..Len(payments) : payments[i].id # StoredPayment.id
  /\ StoredPayment.order_id = args'.order_id

FailedCaptureLeavesOrders ==
  (StoredPayment.status = "failed") =>
    /\ StoredPayment.error_code \in {"ORDER_NOT_FOUND", "AMOUNT_TOO_LOW"}
    /\ orders' = orders

\* The order of the call is already paid and the amount is not below 1 INR.
CaptureOnPaidOrder ==
  /\ args'.order_id \in 1..Len(orders)
  /\ orders[args'.order_id].status = "paid"
  /\ ~(args'.amount.amount.c < Pow10(args'.amount.amount.e))

PaidOrderCapturedAgain ==
  CaptureOnPaidOrder =>
    /\ StoredPayment.status = "captured"
    /\ \E i \in 1..Len(payments) : /\ payments[i].order_id = args'.order_id
                                   /\ payments[i].status = "captured"
    /\ orders' = orders

\* C27: each capture_upi_payment call that passes the currency and VPA
\* validation adds exactly one payment record under a new id and leaves every
\* payment stored before unchanged; a failed capture (ORDER_NOT_FOUND or
\* AMOUNT_TOO_LOW) leaves the orders table unchanged; a capture on an order
\* that is already paid is not deduplicated: it stores another captured
\* payment for the same order.
C27_CaptureAddsFreshPayment ==
  [][CaptureValidatedCall =>
       /\ AddsOnePayment
       /\ FailedCaptureLeavesOrders
       /\ PaidOrderCapturedAgain]_vars

\* Two captured payments of one order are stored, the second by a call of
\* capture_upi_payment.
C27_Witness ==
  /\ op = "capture_upi_payment"
  /\ Len(payments) = 2
  /\ payments[1].status = "captured" /\ payments[2].status = "captured"
  /\ payments[1].order_id = payments[2].order_id
  /\ payments[1].id # payments[2].id
  /\ payments[2].order_id = args.order_id

----------------------------------------------------------------------------
(* C28 and C29, checked under SpecTax *)

\* calculate_gst has extracted the base from a tax-inclusive amount of at
\* most 2 fractional digits.
InclusiveReturned == GstReturned /\ args.include_gst /\ args.amount.e <= 2

\* |a - b| <= 1
WithinOne(a, b) == a - b <= 1 /\ b - a <= 1

\* C29: for every amount >= 0 with at most 2 fractional digits and every
\* rate in [0,100], calculate_gst with include_gst = true returns
\* total_amount equal to the input amount; so in apply_discount_with_gst
\* the reported original total_amount equals original_amount and
\* total_discount = discount_on_base + discount_on_gst.
C29_InclusiveRoundTrips ==
  /\ InclusiveReturned => ret.total_amount = ToPaisaValue(args.amount)
  /\ DiscountReturned =>
       /\ ret.original.total_amount = ToPaisaValue(args.original_amount)
       /\ ret.discount.total_discount
            = ret.discount.discount_on_base + ret.discount.discount_on_gst

\* C29, amended: the total of a tax-inclusive extraction is within 0.01 of
\* the input amount (equal for 1180.00 at 18%); in apply_discount_with_gst
\* the original total_amount is within 0.01 of original_amount, and when
\* discount_on_base does not exceed the original base, total_discount =
\* discount_on_base + discount_on_gst + (original_amount - original
\* total_amount).
C29_InclusiveWithinOnePaisa ==
  /\ InclusiveReturned =>
       /\ WithinOne(ret.total_amount, ToPaisaValue(args.amount))
       /\ (IsRupees(args.amount, 1180) /\ IsRupees(args.gst_rate, 18))
            => ret.total_amount = 118000
  /\ DiscountReturned =>
       /\ WithinOne(ret.original.total_amount, ToPaisaValue(args.original_amount))
       /\ ret.discount.discount_on_base <= ret.original.base_amount =>
            ret.discount.total_discount
              = ret.discount.discount_on_base + ret.discount.discount_on_gst
                  + (ToPaisaValue(args.original_amount) - ret.original.total_amount)

\* A discount was applied to an original amount that the extraction does
\* not give back: the original total is a paisa off, and so is the sum of
\* the two discount parts.
C29_Witness ==
  /\ DiscountReturned
  /\ ret.original.total_amount # ToPaisaValue(args.original_amount)
  /\ ret.discount.discount_on_base > 0
  /\ ret.discount.discount_on_base <= ret.original.base_amount
  /\ ret.discount.total_discount
       # ret.discount.discount_on_base + ret.discount.discount_on_gst

\* C28: a discount never raises the price: for every input accepted by
\* apply_discount_with_gst the final total_amount is at most original_amount,
\* the savings amount (total_discount) is at least 0 and the savings
\* percentage lies in [0,100]; a 0% discount leaves the total equal to the
\* original amount.
C28_DiscountNeverRaisesPrice ==
  DiscountReturned =>
    /\ ret.final.total_amount <= ToPaisaValue(args.original_amount)
    /\ ret.savings.amount >= 0
    /\ ret.savings.amount = ret.discount.total_discount
    /\ ret.savings.percentage >= 0 /\ ret.savings.percentage <= 100 * 100
    /\ (args.discount_type = "percentage" /\ args.discount_value.c = 0)
         => ret.final.total_amount = ToPaisaValue(args.original_amount)

\* What holds: the final total exceeds the original amount by at most 0.01,
\* and by nothing when the extraction gives the original amount back.
DiscountRaisesPriceByOnePaisaAtMost ==
  DiscountReturned =>
    /\ ret.final.total_amount <= ToPaisaValue(args.original_amount) + 1
    /\ ret.savings.amount = ret.discount.total_discount
    /\ ret.savings.amount >= 0 - 1
    /\ ret.savings.percentage <= 100 * 100
    /\ ret.original.total_amount = ToPaisaValue(args.original_amount) =>
         /\ ret.final.total_amount <= ToPaisaValue(args.original_amount)
         /\ ret.savings.percentage >= 0
         /\ (args.discount_type = "percentage" /\ args.discount_value.c = 0)
              => ret.final.total_amount = ToPaisaValue(args.original_amount)

----------------------------------------------------------------------------
(* C30, checked under SpecOrder *)

OrderBreakdownReturned ==
  pc = "done" /\ op = "calculate_order_gst_breakdown" /\ ret.status = "ok"

\* calculate_gst of line i of the call
LineGst(i) ==
  calculate_gst(args.order_lines[i].total_price_gross_amount, OrderLineGstRate,
                args.billing_state_code, args.shipping_state_code, TRUE)

RECURSIVE SumUpTo(_, _)
\* f[1] + ... + f[n]
SumUpTo(f, n) == IF n = 0 THEN 0 ELSE f[n] + SumUpTo(f, n - 1)

\* The shipping state code is provided and denotes another state than the
\* billing state code.
ShippingStateDiffers ==
  /\ args.shipping_state_code \notin {None, <<>>}
  /\ StateNumber(args.shipping_state_code) # StateNumber(args.billing_state_code)

OrderStateCodesValid ==
  /\ StateCodeOk(args.billing_state_code)
  /\ args.shipping_state_code \notin {None, <<>>}
       => StateCodeOk(args.shipping_state_code)

\* The totals are the sums over the lines, and total_amount = base + gst.
OrderTotalsAreSums ==
  /\ Len(ret.lines) = Len(args.order_lines)
  /\ ret.totals.base_amount
       = SumUpTo([i \in 1..Len(ret.lines) |-> ret.lines[i].base_amount], Len(ret.lines))
  /\ ret.totals.total_gst
       = SumUpTo([i \in 1..Len(ret.lines) |-> ret.lines[i].gst_amount], Len(ret.lines))
  /\ ret.totals.cgst
       = SumUpTo([i \in 1..Len(ret.lines) |-> LineGst(i).cgst], Len(ret.lines))
  /\ ret.totals.sgst
       = SumUpTo([i \in 1..Len(ret.lines) |-> LineGst(i).sgst], Len(ret.lines))
  /\ ret.totals.igst
       = SumUpTo([i \in 1..Len(ret.lines) |-> LineGst(i).igst], Len(ret.lines))
  /\ \A i \in 1..Len(ret.lines) :
       /\ ret.lines[i].base_amount = LineGst(i).base_amount
       /\ ret.lines[i].gst_amount = LineGst(i).total_gst
  /\ ret.totals.total_amount = ret.totals.base_amount + ret.totals.total_gst

\* C30: calculate_order_gst_breakdown reports is_inter_state = true exactly
\* when the shipping state code is provided and differs from the billing
\* state code, for every list of order lines (an empty list and lines whose
\* tax rounds to 0.00 included), and its totals are the sums of the per-line
\* base, cgst, sgst, igst and total_gst, with total_amount = total base +
\* total gst.
C30_InterStateByCodesAndTotals ==
  OrderBreakdownReturned =>
    /\ OrderStateCodesValid => (ret.is_inter_state <=> ShippingStateDiffers)
    /\ OrderTotalsAreSums

\* What holds: the totals are the sums, and is_inter_state says that some
\* integrated tax was charged, which needs differing state codes and a line
\* whose tax does not round to 0.00.
InterStateWhenTaxCharged ==
  OrderBreakdownReturned =>
    /\ OrderTotalsAreSums
    /\ ret.is_inter_state <=>
         (/\ ShippingStateDiffers
          /\ \E i \in 1..Len(ret.lines) : ret.lines[i].gst_amount > 0)

====
